---- MODULE Spec2Model ----
(***************************************************************************)
(* Model of TopologyWebviewController (topologyWebviewController.ts): the  *)
(* element model held by the cytoscape instance, the endpoint allocator,   *)
(* the edge-draw lifecycle, the deployment lock and the debounced          *)
(* autosave.                                                               *)
(*                                                                         *)
(* Strings that the code parses or formats (interface names, naming        *)
(* patterns) are sequences of one-character strings; the placeholder       *)
(* "{n}" of a pattern is one element of the sequence.  Identifiers that    *)
(* the code only compares or concatenates are TLA+ strings.                *)
(* Time is counted in units of 100 ms.                                     *)
(***************************************************************************)
EXTENDS Integers, Sequences, FiniteSets, TLC

VARIABLES
  container,            \* document.getElementById(containerId) is an element
  mode,                 \* constructor argument: "edit" or "view"
  installed,            \* the constructor ran to its end
  selectedEdge,         \* topoViewerState.selectedEdge ("" stands for null)
  inspector,            \* the inspector the latest view-mode click opened
  environment,          \* the fetch of the lab name: pending, loaded, failed
  afterReject,          \* history: saves requested since a save was rejected
  lineColor,            \* edges with a 'line-color' style of their own
  nodes,                \* cy.nodes(): id -> data of the node
  edges,                \* cy.edges(): set of edge data records
  interfaceCounters,    \* this.interfaceCounters (0 stands for a missing key)
  isEdgeHandlerActive,  \* this.isEdgeHandlerActive
  ehEnabled,            \* edgehandles instance: enabled / disabled
  ehPhase,              \* edgehandles gesture: "idle", "drawing", "stopping"
  ehSource,             \* source node of the gesture in progress
  grabbed,              \* the node the user holds (node.grabbed()), or NoNode
  isEditingLocked,      \* this.isEditingLocked
  isLabDeployed,        \* window.isLabDeployed
  lockListeners,        \* sets of tap/cxttap/grab interceptors installed on cy
  cursor,               \* style.cursor of the cytoscape container
  textMenus,            \* free-text context menus installed
  editMenus,            \* sets of node/group/edge context menus installed
  fetches,              \* fetchAndLoadData requests whose answer is pending
  timeout,              \* the debounce closure's timer: time left, or NoTimer
  graceTimers,          \* time left of the setTimeout calls of ehcomplete
  inFlight,             \* save requests sent whose promise has not settled
  saveLog,              \* history: the latest save requests issued
  lastAuto,             \* history: what the latest autosave coalesced
  lastDelivery,         \* history: the latest deployment-state-changed message
  burst,                \* history: autoSave calls since the timer last fired
  burstCalm,            \* history: every autoSave call since the timer last
                        \* fired came while Unlocked with no draw in progress
  sinceEvent,           \* history: time since the latest autoSave call
  unsaved               \* history: the model holds a mutation no save carried

vars == <<container, mode, installed, selectedEdge, inspector, lineColor, environment,
          afterReject, nodes, edges, interfaceCounters, isEdgeHandlerActive, ehEnabled,
          ehPhase, ehSource, grabbed, isEditingLocked, isLabDeployed, lockListeners,
          cursor, textMenus, editMenus, fetches, timeout, graceTimers,
          inFlight, saveLog, lastAuto, lastDelivery, burst, burstCalm,
          sinceEvent, unsaved>>

viewVars == <<selectedEdge, inspector, lineColor>>

callVars == <<environment, afterReject>>

graphVars == <<nodes, edges>>
drawVars  == <<isEdgeHandlerActive, ehPhase, ehSource>>
lockVars  == <<isEditingLocked, isLabDeployed, lockListeners, cursor, ehEnabled,
               textMenus, editMenus, lastDelivery>>
saveVars  == <<timeout, inFlight, saveLog, lastAuto, burst, burstCalm,
               sinceEvent, unsaved>>

(***************************************************************************)
(* Bounds of the model.                                                    *)
(***************************************************************************)
MaxDraws     == 2   \* completed edge draws of one run at most
MaxListeners == 2   \* interceptor sets installed at most
MaxFetches   == 1   \* pending fetchAndLoadData answers at most
MaxInFlight  == 2   \* unsettled save requests at most
MaxSaves     == 2   \* the save history keeps this many of the latest saves
MaxBurst     == 3   \* autoSave calls counted between two firings of the timer

(***************************************************************************)
(* Program constants.                                                      *)
(***************************************************************************)
QuietPeriod == 5    \* debounce wait, 500 ms
GraceDelay  == 1    \* setTimeout of ehcomplete, 100 ms

NoTimer == -1
NoNode  == ""

(***************************************************************************)
(* Text.                                                                   *)
(***************************************************************************)
Digits == <<"0", "1", "2", "3", "4", "5", "6", "7", "8", "9">>

IsDigit(c) == \E i \in 1..10 : Digits[i] = c

DigitVal(c) == (CHOOSE i \in 1..10 : Digits[i] = c) - 1

RECURSIVE ToDigits(_)
\* Number.prototype.toString() of a non-negative integer
ToDigits(n) ==
  IF n < 10 THEN <<Digits[n + 1]>>
  ELSE ToDigits(n \div 10) \o <<Digits[(n % 10) + 1]>>

RECURSIVE ParseInt(_)
\* parseInt(s, 10) of a non-empty string of digits
ParseInt(s) ==
  IF Len(s) = 1 THEN DigitVal(s[1])
  ELSE 10 * ParseInt(SubSeq(s, 1, Len(s) - 1)) + DigitVal(s[Len(s)])

\* index of the first "{n}" of a pattern, 0 when it has none
PlaceholderAt(pattern) ==
  IF \E i \in 1..Len(pattern) : pattern[i] = "{n}"
  THEN CHOOSE i \in 1..Len(pattern) :
         /\ pattern[i] = "{n}"
         /\ \A j \in 1..(i - 1) : pattern[j] # "{n}"
  ELSE 0

\* pattern.replace('{n}', num.toString()): the first placeholder only
Instantiate(pattern, num) ==
  LET p == PlaceholderAt(pattern) IN
  IF p = 0 THEN pattern
  ELSE SubSeq(pattern, 1, p - 1) \o ToDigits(num)
         \o SubSeq(pattern, p + 1, Len(pattern))

\* The characters a later "{n}" of the pattern stands for once escaped.
Literal(s) ==
  LET Expand[i \in 0..Len(s)] ==
        IF i = 0 THEN << >>
        ELSE Expand[i - 1] \o (IF s[i] = "{n}" THEN <<"{", "n", "}">> ELSE <<s[i]>>)
  IN Expand[Len(s)]

\* endpoint.match(patternRegex): the regex is ^prefix(\d+)suffix$ with every
\* character but the first placeholder taken literally.  The value is the
\* set holding parseInt(match[1], 10), or {} when there is no match or the
\* pattern has no capture group (parseInt(undefined) is NaN).
MatchNumber(pattern, endpoint) ==
  LET p   == PlaceholderAt(pattern)
      pre == SubSeq(pattern, 1, p - 1)
      suf == Literal(SubSeq(pattern, p + 1, Len(pattern)))
      mid == SubSeq(endpoint, Len(pre) + 1, Len(endpoint) - Len(suf))
  IN IF p = 0 THEN {}
     ELSE IF /\ Len(endpoint) > Len(pre) + Len(suf)
             /\ SubSeq(endpoint, 1, Len(pre)) = pre
             /\ SubSeq(endpoint, Len(endpoint) - Len(suf) + 1, Len(endpoint)) = suf
             /\ \A i \in 1..Len(mid) : IsDigit(mid[i])
          THEN {ParseInt(mid)}
          ELSE {}

(***************************************************************************)
(* window.ifacePatternMapping, as the host sets it: kind -> pattern.       *)
(***************************************************************************)
DefaultPattern == <<"e", "t", "h", "{n}">>

IfacePatternMapping ==
  [k \in {"nokia_srlinux"} |-> <<"e", "1", "-", "{n}">>]

\* ifaceMap[kind] || 'eth{n}', with kind = extraData?.kind || 'default'
PatternOfKind(kind) ==
  IF kind \in DOMAIN IfacePatternMapping THEN IfacePatternMapping[kind]
  ELSE DefaultPattern

\* kind of the node with this id in element set N ('default' when the node
\* is absent or has no kind)
KindOf(N, id) ==
  IF id \in DOMAIN N /\ N[id].kind # "" THEN N[id].kind ELSE "default"

(***************************************************************************)
(* The element model, with the behaviour of the graph library the          *)
(* controller relies on.                                                   *)
(***************************************************************************)
Children(N, id) == {c \in DOMAIN N : N[c].parent = id}

\* node.isParent()
IsParent(N, id) == Children(N, id) # {}

\* node.isChild()
IsChild(N, id) == N[id].parent # "" /\ N[id].parent \in DOMAIN N

RECURSIVE Closure(_, _)
\* the nodes of S with all their descendants
Closure(N, S) ==
  LET have == S \cap DOMAIN N
      more == have \cup {c \in DOMAIN N : N[c].parent \in have}
  IN IF more = have THEN have ELSE Closure(N, more)

Restrict(N, keep) == [id \in keep |-> N[id]]

\* eles.remove() on the nodes S: the library removes them together with
\* their descendants and with every edge connected to a removed node
NodesAfterRemove(N, S) == Restrict(N, DOMAIN N \ Closure(N, S))

\* a removal that leaves the edges of the removed nodes behind
EdgesLeftBehind(N, E, S) == E

EdgesAfterRemove(N, E, S) ==
  LET gone == Closure(N, S)
  IN {e \in E : e.source \notin gone /\ e.target \notin gone}

EdgeIds(E) == {e.id : e \in E}

ElementIds(N, E) == DOMAIN N \cup EdgeIds(E)

\* a cy.add() that takes an edge whatever its id
CanAddEdgeAnyId(N, E, e) ==
  /\ e.source \in DOMAIN N
  /\ e.target \in DOMAIN N

\* cy.add() of an edge: refused when the id is taken or an endpoint is missing
CanAddEdge(N, E, e) ==
  /\ e.id \notin ElementIds(N, E)
  /\ e.source \in DOMAIN N
  /\ e.target \in DOMAIN N

(***************************************************************************)
(* getNextEndpoint                                                         *)
(***************************************************************************)
UsedNumbersMissTarget(N, E, nodeId) ==
  UNION {MatchNumber(PatternOfKind(KindOf(N, nodeId)), e.sourceEndpoint) :
           e \in {x \in E : x.source = nodeId /\ x.sourceEndpoint # << >>}}

\* usedNumbers: of every edge with source or target nodeId, the number in
\* the endpoint on nodeId's side, when that endpoint matches the pattern
UsedNumbers(N, E, nodeId) ==
  LET pattern == PatternOfKind(KindOf(N, nodeId)) IN
  UNION ( {MatchNumber(pattern, e.sourceEndpoint) :
             e \in {x \in E : x.source = nodeId /\ x.sourceEndpoint # << >>}}
          \cup
          {MatchNumber(pattern, e.targetEndpoint) :
             e \in {x \in E : x.target = nodeId /\ x.targetEndpoint # << >>}} )

\* let endpointNum = 1; while (usedNumbers.has(endpointNum)) endpointNum++
FirstFree(used) ==
  CHOOSE n \in 1..(Cardinality(used) + 1) :
    /\ n \notin used
    /\ \A m \in 1..(n - 1) : m \in used

GetNextEndpoint(N, E, nodeId) ==
  Instantiate(PatternOfKind(KindOf(N, nodeId)),
              FirstFree(UsedNumbers(N, E, nodeId)))

(***************************************************************************)
(* Documents the host may hand over on a load.                             *)
(***************************************************************************)
Node(role, parent, editor, kind) ==
  [role |-> role, parent |-> parent, editor |-> editor, kind |-> kind,
   grabbable |-> TRUE]

Edge(id, source, target, sourceEndpoint, targetEndpoint, editor) ==
  [id |-> id, source |-> source, target |-> target,
   sourceEndpoint |-> sourceEndpoint, targetEndpoint |-> targetEndpoint,
   editor |-> editor]

Eth(n) == Instantiate(DefaultPattern, n)

\* three plain nodes, c of another kind; node a holds interfaces 1, 3 and 4
DocPlain ==
  [nodes |-> [id \in {"a", "b", "c"} |->
                IF id = "c" THEN Node("pe", "", "", "nokia_srlinux")
                ELSE Node("pe", "", "", "")],
   edges |-> {Edge("e1", "a", "b", Eth(1), Eth(1), ""),
              Edge("e2", "a", "c", Eth(3), <<"e", "1", "-", "1">>, ""),
              Edge("e3", "b", "a", Eth(2), Eth(4), "")}]

\* two nodes and one link, all made in the editor
DocTiny ==
  [nodes |-> [id \in {"a", "b"} |-> Node("pe", "", "true", "")],
   edges |-> {Edge("e1", "a", "b", Eth(1), Eth(1), "true")}]

\* a group g holding node a (another kind) and a dummyChild, a node b made
\* in the editor, a free text t
DocGroup ==
  [nodes |-> [id \in {"g", "a", "d", "b", "t"} |->
                CASE id = "g" -> Node("group", "", "", "")
                  [] id = "a" -> Node("pe", "g", "true", "nokia_srlinux")
                  [] id = "d" -> Node("dummyChild", "g", "", "")
                  [] id = "b" -> Node("pe", "", "true", "")
                  [] id = "t" -> Node("freeText", "", "", "")],
   edges |-> {Edge("e1", "a", "b", <<"e", "1", "-", "1">>,
                   <<"e", "1", "-", "1">>, "true")}]

Docs == {DocPlain, DocGroup, DocTiny}

\* id the add-node manager gives a new node
NewNodeId == "x"

\* what window.isLabDeployed and message.isLabDeployed may hold: the
\* booleans, and "other" for any value that is not a boolean
DeployValues == {"true", "false", "other"}

Modes == {"edit", "view"}

(***************************************************************************)
(* debounce, setupAutoSave                                                 *)
(***************************************************************************)
Min(a, b) == IF a < b THEN a ELSE b

SinceCap == QuietPeriod + 1

\* number of elements that differ between two element sets: the number of
\* add / remove events the change emits
Changed(N1, E1, N2, E2) ==
  Cardinality({id \in DOMAIN N1 \cup DOMAIN N2 :
                 id \notin DOMAIN N1 \/ id \notin DOMAIN N2 \/ N1[id] # N2[id]})
  + Cardinality((E1 \ E2) \cup (E2 \ E1))

\* a leading-edge debounce: a call that finds a timer pending leaves it
ScheduleLeading(k, calm) ==
  IF mode = "edit" /\ k > 0
  THEN /\ timeout' = IF timeout = NoTimer THEN QuietPeriod ELSE timeout
       /\ burst' = Min(burst + k, MaxBurst)
       /\ burstCalm' = ((burst = 0 \/ burstCalm) /\ calm)
       /\ sinceEvent' = 0
  ELSE UNCHANGED <<timeout, burst, burstCalm, sinceEvent>>

\* k events among 'add remove data position dragfree' reach the debounced
\* autoSave: each call clears the pending timer and sets a new one.  The
\* listeners exist in edit mode only.
Schedule(k, calm) ==
  IF mode = "edit" /\ k > 0
  THEN /\ timeout' = QuietPeriod
       /\ burst' = Min(burst + k, MaxBurst)
       /\ burstCalm' = ((burst = 0 \/ burstCalm) /\ calm)
       /\ sinceEvent' = 0
  ELSE UNCHANGED <<timeout, burst, burstCalm, sinceEvent>>

\* k events, emitted with the controller Unlocked and no draw in progress
\* (calm) or not, by a handler that changed the element model or not
EventsWhen(k, changed, calm) ==
  /\ Schedule(k, calm)
  /\ unsaved' = (unsaved \/ changed)
  /\ UNCHANGED <<inFlight, saveLog, lastAuto>>

\* the events of a handler that leaves the lock and the gesture alone
Events(k, changed) ==
  EventsWhen(k, changed, ~isEditingLocked /\ ehPhase = "idle")

NoAuto == [burst |-> 0, since |-> 0]

\* no save request was rejected so far
NoReject == -1

\* saveManager.viewportButtonsSaveTopo(cy, suppressNotification): the save
\* request carries the current element model
SaveIssued(kind, suppress) ==
  /\ inFlight' = inFlight + 1
  /\ saveLog' = LET all == Append(saveLog, [kind |-> kind, suppress |-> suppress])
                IN IF Len(all) > MaxSaves THEN Tail(all) ELSE all
  /\ lastAuto' = IF kind = "auto" THEN [burst |-> burst, since |-> sinceEvent]
                 ELSE lastAuto
  /\ unsaved' = FALSE
  /\ afterReject' = IF afterReject = NoReject THEN NoReject ELSE 1

(***************************************************************************)
(* Construction.  The constructor asks for the topology; the answer        *)
(* arrives later (LoadData).                                               *)
(***************************************************************************)
NoNodes == [id \in {} |-> Node("pe", "", "", "")]

\* a check that never reports a deployed lab
CheckDeploymentStateNever(value) == FALSE

\* a check that takes every value but false for "deployed"
CheckDeploymentStateLoose(value) == value # "false"

\* checkDeploymentState: the new value of isEditingLocked
CheckDeploymentState(value) == value = "true"

Init ==
  /\ container = TRUE
  /\ installed = TRUE
  /\ mode \in Modes
  /\ isLabDeployed \in DeployValues
  /\ isEditingLocked = CheckDeploymentState(isLabDeployed)
  /\ nodes = NoNodes
  /\ edges = {}
  /\ interfaceCounters = [id \in {} |-> 0]
  /\ isEdgeHandlerActive = FALSE
  /\ ehPhase = "idle"
  /\ ehSource = NoNode
  /\ grabbed = NoNode
  /\ selectedEdge = ""
  /\ inspector = ""
  /\ environment = "pending"
  /\ afterReject = NoReject
  /\ lineColor = {}
  /\ ehEnabled = (mode = "edit" /\ ~isEditingLocked)
  /\ lockListeners = IF mode = "edit" /\ isEditingLocked THEN 1 ELSE 0
  /\ cursor = IF mode = "edit" /\ isEditingLocked THEN "not-allowed" ELSE ""
  /\ textMenus = IF isEditingLocked THEN 0 ELSE 1
  /\ editMenus = IF ~isEditingLocked /\ mode = "edit" THEN 1 ELSE 0
  /\ fetches = 1
  /\ timeout = NoTimer
  /\ graceTimers = {}
  /\ inFlight = 0
  /\ saveLog = << >>
  /\ lastAuto = NoAuto
  /\ lastDelivery = "none"
  /\ burst = 0
  /\ burstCalm = TRUE
  /\ sinceEvent = SinceCap
  /\ unsaved = FALSE

(***************************************************************************)
(* Loading: fetchAndLoadData answers, 'yaml-saved' asks for a reload.      *)
(***************************************************************************)
LoadData(doc) ==
  /\ fetches > 0
  /\ fetches' = fetches - 1
  /\ nodes' = doc.nodes
  /\ edges' = doc.edges
  /\ Events(Cardinality(ElementIds(nodes, edges))
              + Cardinality(ElementIds(doc.nodes, doc.edges)), FALSE)
  /\ grabbed' = NoNode
  /\ lineColor' \in {{}, {c \in lineColor : c.id \in EdgeIds(doc.edges)}}
  /\ UNCHANGED <<mode, container, installed, selectedEdge, inspector, callVars, interfaceCounters,
                 drawVars, lockVars, graceTimers>>

YamlSaved ==
  /\ fetches < MaxFetches
  /\ fetches' = fetches + 1
  /\ UNCHANGED <<mode, container, installed, viewVars, callVars, grabbed, graphVars, interfaceCounters, drawVars, lockVars,
                 graceTimers, saveVars>>

(***************************************************************************)
(* Edge drawing (edgehandles).                                             *)
(***************************************************************************)
\* a canConnect that does not look at the role of the target
CanConnectAnyTarget(N, sourceNode, targetNode) ==
  /\ N[sourceNode].role # "freeText"
  /\ N[targetNode].role # "freeText"
  /\ sourceNode # targetNode
  /\ ~IsParent(N, sourceNode)
  /\ ~IsParent(N, targetNode)

\* canConnect option
CanConnect(N, sourceNode, targetNode) ==
  /\ N[sourceNode].role # "freeText"
  /\ N[targetNode].role # "freeText"
  /\ sourceNode # targetNode
  /\ ~IsParent(N, sourceNode)
  /\ ~IsParent(N, targetNode)
  /\ N[targetNode].role # "dummyChild"

\* this.interfaceCounters[id] ?? 0
Counter(counters, id) == IF id \in DOMAIN counters THEN counters[id] ELSE 0

SetCounter(counters, id, n) ==
  [k \in DOMAIN counters \cup {id} |-> IF k = id THEN n ELSE counters[k]]

RECURSIVE Total(_, _)
Total(counters, ids) ==
  IF ids = {} THEN 0
  ELSE LET id == CHOOSE x \in ids : TRUE
       IN counters[id] + Total(counters, ids \ {id})

\* completed draws so far: each one advanced two counters
Draws(counters) == Total(counters, DOMAIN counters) \div 2

\* the counters after edgeParams(sourceNode, targetNode)
CountersAfterDraw(counters, sourceNode, targetNode) ==
  LET c1 == SetCounter(counters, sourceNode, Counter(counters, sourceNode) + 1)
  IN SetCounter(c1, targetNode, Counter(c1, targetNode) + 1)

\* edgeParams option: the data of the edge the library adds
EdgeParams(N, counters, sourceNode, targetNode) ==
  LET c1 == SetCounter(counters, sourceNode, Counter(counters, sourceNode) + 1)
      c2 == SetCounter(c1, targetNode, Counter(c1, targetNode) + 1)
  IN Edge(sourceNode \o "-" \o targetNode, sourceNode, targetNode,
          Instantiate(PatternOfKind(KindOf(N, sourceNode)), c1[sourceNode]),
          Instantiate(PatternOfKind(KindOf(N, targetNode)), c2[targetNode]),
          "")

\* a completion that keeps the endpoints edgeParams numbered from the counters
EdgesAfterCompleteFromCounters(N, E, added) ==
  IF CanAddEdge(N, E, added)
  THEN E \cup {[added EXCEPT !.editor = "true"]}
  ELSE E

\* the edge set after the library added the edge 'added' and the
\* 'ehcomplete' handler stamped it
EdgesAfterComplete(N, E, added) ==
  IF CanAddEdge(N, E, added)
  THEN LET E1 == E \cup {added}
           sourceEndpoint == GetNextEndpoint(N, E1, added.source)
           targetEndpoint == GetNextEndpoint(N, E1, added.target)
       IN E \cup {[added EXCEPT !.sourceEndpoint = sourceEndpoint,
                                !.targetEndpoint = targetEndpoint,
                                !.editor = "true"]}
  ELSE E

\* whether eh.start(node), or the user's own gesture, starts a draw
CanStartOn(n) ==
  /\ ehEnabled
  /\ ehPhase = "idle"
  /\ n \in DOMAIN nodes
  /\ nodes[n].role # "freeText"

\* this.isEdgeHandlerActive = true; this.eh.start(node)
StartDraw(n) ==
  /\ isEdgeHandlerActive' = TRUE
  /\ IF CanStartOn(n)
     THEN ehPhase' = "drawing" /\ ehSource' = n
     ELSE UNCHANGED <<ehPhase, ehSource>>

\* 'ehstart' of a draw the user starts on the handle of a node
EhStart(n) ==
  /\ CanStartOn(n)
  /\ isEdgeHandlerActive' = TRUE
  /\ ehPhase' = "drawing"
  /\ ehSource' = n
  /\ UNCHANGED <<mode, container, installed, viewVars, callVars, grabbed, graphVars, interfaceCounters, lockVars, fetches,
                 graceTimers, saveVars>>

\* the draw ends on targetNode: the library adds the edge edgeParams
\* describes and emits 'ehcomplete'
EhComplete(targetNode) ==
  /\ ehPhase = "drawing"
  /\ ehSource \in DOMAIN nodes
  /\ targetNode \in DOMAIN nodes
  /\ CanConnect(nodes, ehSource, targetNode)
  /\ Draws(interfaceCounters) < MaxDraws
  /\ interfaceCounters' = CountersAfterDraw(interfaceCounters, ehSource, targetNode)
  /\ edges' = EdgesAfterComplete(nodes, edges,
                 EdgeParams(nodes, interfaceCounters, ehSource, targetNode))
  /\ graceTimers' = graceTimers \cup {GraceDelay}
  /\ ehPhase' = "stopping"
  /\ Events(IF edges' # edges THEN 2 ELSE 0, edges' # edges)
  /\ UNCHANGED <<mode, container, installed, viewVars, callVars, grabbed, nodes, isEdgeHandlerActive, ehSource, lockVars, fetches>>

\* an 'ehcancel' handler that leaves the flag as 'ehstart' set it
EhCancelKeepsFlag ==
  /\ ehPhase = "drawing"
  /\ ehPhase' = "stopping"
  /\ UNCHANGED <<mode, container, installed, viewVars, callVars, grabbed, graphVars, interfaceCounters,
                 isEdgeHandlerActive, ehSource, lockVars, fetches,
                 graceTimers, saveVars>>

\* the draw ends on no eligible target: 'ehcancel'
EhCancel ==
  /\ ehPhase = "drawing"
  /\ isEdgeHandlerActive' = FALSE
  /\ ehPhase' = "stopping"
  /\ UNCHANGED <<mode, container, installed, viewVars, callVars, grabbed, graphVars, interfaceCounters, ehSource, lockVars,
                 fetches, graceTimers, saveVars>>

\* 'ehstop', which ends every gesture
EhStop ==
  /\ ehPhase = "stopping"
  /\ isEdgeHandlerActive' = FALSE
  /\ ehPhase' = "idle"
  /\ ehSource' = NoNode
  /\ UNCHANGED <<mode, container, installed, viewVars, callVars, grabbed, graphVars, interfaceCounters, lockVars, fetches,
                 graceTimers, saveVars>>

\* the setTimeout callback of 'ehcomplete'
GraceFire ==
  /\ 0 \in graceTimers
  /\ graceTimers' = graceTimers \ {0}
  /\ isEdgeHandlerActive' = FALSE
  /\ UNCHANGED <<mode, container, installed, viewVars, callVars, grabbed, graphVars, interfaceCounters, ehPhase, ehSource,
                 lockVars, fetches, saveVars>>

(***************************************************************************)
(* Edit-mode click handlers (registerEvents).                              *)
(***************************************************************************)
\* onCanvasClick; the add-node manager adds one node made in the editor
CanvasClick(shiftKey) ==
  /\ mode = "edit"
  /\ IF shiftKey
     THEN /\ NewNodeId \notin ElementIds(nodes, edges)
          /\ nodes' = [id \in DOMAIN nodes \cup {NewNodeId} |->
                         IF id = NewNodeId THEN Node("pe", "", "true", "")
                         ELSE nodes[id]]
          /\ Events(1, TRUE)
     ELSE UNCHANGED <<nodes, saveVars>>
  /\ UNCHANGED <<mode, container, installed, viewVars, callVars, grabbed, edges, interfaceCounters, drawVars, lockVars, fetches,
                 graceTimers>>

\* a Ctrl+click that takes the child out of the model and puts it back as
\* a top-level node, without its links
NodeClickOrphanRelinks(n, ctrlKey, shiftKey, altKey) ==
  /\ mode = "edit"
  /\ n \in DOMAIN nodes
  /\ IF ctrlKey /\ IsChild(nodes, n)
     THEN /\ nodes' = [nodes EXCEPT ![n].parent = ""]
          /\ edges' = {e \in edges : e.source # n /\ e.target # n}
          /\ Events(1, TRUE)
          /\ UNCHANGED drawVars
     ELSE IF shiftKey /\ nodes[n].role # "freeText"
     THEN /\ StartDraw(n)
          /\ UNCHANGED <<graphVars, saveVars>>
     ELSE IF altKey /\ nodes[n].editor = "true"
     THEN /\ nodes' = NodesAfterRemove(nodes, {n})
          /\ edges' = EdgesAfterRemove(nodes, edges, {n})
          /\ Events(Changed(nodes, edges, nodes', edges'), TRUE)
          /\ UNCHANGED drawVars
     ELSE UNCHANGED <<graphVars, drawVars, saveVars>>
  /\ UNCHANGED <<mode, container, installed, viewVars, callVars, grabbed, interfaceCounters, lockVars, fetches, graceTimers>>

\* a switch that tests the cases in the order Alt, Shift, Ctrl
NodeClickAltFirst(n, ctrlKey, shiftKey, altKey) ==
  /\ mode = "edit"
  /\ n \in DOMAIN nodes
  /\ IF altKey /\ nodes[n].editor = "true"
     THEN /\ nodes' = NodesAfterRemove(nodes, {n})
          /\ edges' = EdgesAfterRemove(nodes, edges, {n})
          /\ Events(Changed(nodes, edges, nodes', edges'), TRUE)
          /\ UNCHANGED drawVars
     ELSE IF shiftKey /\ nodes[n].role # "freeText"
     THEN /\ StartDraw(n)
          /\ UNCHANGED <<graphVars, saveVars>>
     ELSE IF ctrlKey /\ IsChild(nodes, n)
     THEN /\ nodes' = [nodes EXCEPT ![n].parent = ""]
          /\ Events(1, TRUE)
          /\ UNCHANGED <<edges, drawVars>>
     ELSE UNCHANGED <<graphVars, drawVars, saveVars>>
  /\ UNCHANGED <<mode, container, installed, viewVars, callVars, grabbed, interfaceCounters, lockVars, fetches, graceTimers>>

\* onNodeClick: switch (true)
NodeClick(n, ctrlKey, shiftKey, altKey) ==
  /\ mode = "edit"
  /\ n \in DOMAIN nodes
  /\ IF ctrlKey /\ IsChild(nodes, n)
     THEN /\ nodes' = [nodes EXCEPT ![n].parent = ""]
          /\ Events(1, TRUE)
          /\ UNCHANGED <<edges, drawVars>>
     ELSE IF shiftKey /\ nodes[n].role # "freeText"
     THEN /\ StartDraw(n)
          /\ UNCHANGED <<graphVars, saveVars>>
     ELSE IF altKey /\ nodes[n].editor = "true"
     THEN /\ nodes' = NodesAfterRemove(nodes, {n})
          /\ edges' = EdgesAfterRemove(nodes, edges, {n})
          /\ Events(Changed(nodes, edges, nodes', edges'), TRUE)
          /\ UNCHANGED drawVars
     ELSE UNCHANGED <<graphVars, drawVars, saveVars>>
  /\ UNCHANGED <<mode, container, installed, viewVars, callVars, grabbed, interfaceCounters, lockVars, fetches, graceTimers>>

\* onEdgeClick
EdgeClick(e, altKey) ==
  /\ mode = "edit"
  /\ e \in edges
  /\ IF altKey
     THEN edges' = edges \ {e} /\ Events(1, TRUE)
     ELSE UNCHANGED <<edges, saveVars>>
  /\ UNCHANGED <<mode, container, installed, viewVars, callVars, grabbed, nodes, interfaceCounters, drawVars, lockVars, fetches,
                 graceTimers>>

(***************************************************************************)
(* View-mode click handlers (registerEvents).  They fill and show the      *)
(* inspector panels and recolour the inspected edge.                       *)
(***************************************************************************)
\* colour of the clicked edge: one for a link made in the editor, one for a
\* link that was loaded
InspectionColor(e) == IF e.editor = "true" THEN "#32CD32" ELSE "#0043BF"

\* a click dispatch that opens the node panel whatever keys are held
NodeInspectorsAnyKey(N, n, modifier) ==
  IF IsParent(N, n) \/ N[n].role = "group" THEN {"group"}
  ELSE IF N[n].role \in {"textbox", "dummyChild", "freeText"} THEN {""}
  ELSE {"node", ""}

\* the inspectors a click on node n may open ("" for none): the group
\* editor for a node that has children or is a group, none for a text box, a
\* placeholder or a free text, and else, with no modifier key held, the
\* node panel, whose display the handler toggles
NodeInspectors(N, n, modifier) ==
  IF IsParent(N, n) \/ N[n].role = "group" THEN {"group"}
  ELSE IF N[n].role \in {"textbox", "dummyChild"} THEN {""}
  ELSE IF N[n].role = "freeText" THEN {""}
  ELSE IF ~modifier THEN {"node", ""}
  ELSE {""}

\* an edge click that deletes with Alt, as the edit-mode handler does
ViewEdgeClickDeletes(e, altKey) ==
  /\ mode = "view"
  /\ e \in edges
  /\ selectedEdge' = e.id
  /\ inspector' = "link"
  /\ lineColor' = {[id |-> e.id, color |-> InspectionColor(e)]}
  /\ IF altKey
     THEN edges' = edges \ {e} /\ Events(1, TRUE)
     ELSE UNCHANGED <<edges, saveVars>>
  /\ UNCHANGED <<mode, container, installed, callVars, grabbed, nodes, interfaceCounters, drawVars, lockVars,
                 fetches, graceTimers>>

\* an edge click that colours the clicked edge and leaves the colours of
\* the other edges
ViewEdgeClickKeepsColours(e, altKey) ==
  /\ mode = "view"
  /\ e \in edges
  /\ lineColor' = {c \in lineColor : c.id # e.id}
                     \cup {[id |-> e.id, color |-> InspectionColor(e)]}
  /\ inspector' = "link"
  /\ selectedEdge' = e.id
  /\ UNCHANGED <<mode, container, installed, callVars, grabbed, graphVars, interfaceCounters, drawVars, lockVars,
                 fetches, graceTimers, saveVars>>

\* onEdgeClick: the link panel is filled from the data of the edge
ViewEdgeClick(e, altKey) ==
  /\ mode = "view"
  /\ e \in edges
  /\ lineColor' = {[id |-> e.id, color |-> InspectionColor(e)]}
  /\ inspector' = "link"
  /\ selectedEdge' = e.id
  /\ UNCHANGED <<mode, container, installed, callVars, grabbed, graphVars, interfaceCounters, drawVars, lockVars,
                 fetches, graceTimers, saveVars>>

\* onNodeClick: the group editor for a group, the node panel for a plain
\* click on a node, nothing for a text box, a placeholder or a free text
ViewNodeClick(n, modifier) ==
  /\ mode = "view"
  /\ n \in DOMAIN nodes
  /\ lineColor' = {}
  /\ selectedEdge' = ""
  /\ inspector' \in NodeInspectors(nodes, n, modifier)
  /\ UNCHANGED <<mode, container, installed, callVars, grabbed, graphVars, interfaceCounters, drawVars, lockVars,
                 fetches, graceTimers, saveVars>>

\* onCanvasClick: the panels are closed
ViewCanvasClick ==
  /\ mode = "view"
  /\ inspector' = ""
  /\ lineColor' = {}
  /\ selectedEdge' = ""
  /\ UNCHANGED <<mode, container, installed, callVars, grabbed, graphVars, interfaceCounters, drawVars, lockVars,
                 fetches, graceTimers, saveVars>>

(***************************************************************************)
(* Dragging nodes.  The library lets the user grab a node that is          *)
(* grabbable; it emits 'position' for a node whose position changes and    *)
(* 'dragfree' when a node that was dragged is let go.                      *)
(***************************************************************************)
\* the user presses on node n and holds it
Grab(n) ==
  /\ grabbed = NoNode
  /\ n \in DOMAIN nodes
  /\ nodes[n].grabbable
  /\ grabbed' = n
  /\ UNCHANGED <<mode, container, installed, viewVars, callVars, graphVars, interfaceCounters, drawVars, lockVars,
                 fetches, graceTimers, saveVars>>

\* 'position' on node n: autoSave() unless event.target.grabbed()
Position(n) ==
  /\ n \in DOMAIN nodes
  /\ IF grabbed = n
     THEN /\ unsaved' = TRUE
          /\ UNCHANGED <<timeout, inFlight, saveLog, lastAuto, burst,
                         burstCalm, sinceEvent>>
     ELSE Events(1, TRUE)
  /\ UNCHANGED <<mode, container, installed, viewVars, callVars, grabbed, graphVars, interfaceCounters, drawVars,
                 lockVars, fetches, graceTimers>>

\* the user lets the held node go: 'dragfree' when it was dragged
Free(dragged) ==
  /\ grabbed # NoNode
  /\ grabbed' = NoNode
  /\ IF dragged THEN Events(1, TRUE) ELSE UNCHANGED saveVars
  /\ UNCHANGED <<mode, container, installed, viewVars, callVars, graphVars, interfaceCounters, drawVars, lockVars,
                 fetches, graceTimers>>

(***************************************************************************)
(* Context-menu commands (initializeContextMenu).  A command can be        *)
(* chosen on an element while a menu with a matching selector is           *)
(* installed.                                                              *)
(***************************************************************************)
\* selector of the free-text menu
IsFreeTextTarget(N, n) == N[n].role = "freeText"

\* selector of the node menu
IsPlainNodeTarget(N, n) ==
  N[n].role \notin {"group", "dummyChild", "freeText"}

\* selector of the group menu
IsGroupTarget(N, n) ==
  IsParent(N, n) \/ N[n].role \in {"dummyChild", "group"}

\* the menus whose selector matches node n, of those that are installed
MenusFor(n) ==
  {m \in {"freeText"} : textMenus > 0 /\ IsFreeTextTarget(nodes, n)}
    \cup {m \in {"node"} : editMenus > 0 /\ IsPlainNodeTarget(nodes, n)}
    \cup {m \in {"group"} : editMenus > 0 /\ IsGroupTarget(nodes, n)}

\* a Delete Node that removes the node and never looks at the parent
MenuDeleteNodeOnly(n) ==
  /\ editMenus > 0
  /\ n \in DOMAIN nodes
  /\ IsPlainNodeTarget(nodes, n)
  /\ nodes' = NodesAfterRemove(nodes, {n})
  /\ edges' = EdgesAfterRemove(nodes, edges, {n})
  /\ Events(Changed(nodes, edges, nodes', edges'), TRUE)
  /\ UNCHANGED <<mode, container, installed, viewVars, callVars, grabbed, interfaceCounters, drawVars, lockVars, fetches,
                 graceTimers>>

\* Delete Node
MenuDeleteNode(n) ==
  /\ editMenus > 0
  /\ n \in DOMAIN nodes
  /\ IsPlainNodeTarget(nodes, n)
  /\ LET parent == nodes[n].parent
         N1 == NodesAfterRemove(nodes, {n})
         E1 == EdgesAfterRemove(nodes, edges, {n})
     IN IF parent \in DOMAIN N1 /\ Children(N1, parent) = {}
        THEN /\ nodes' = NodesAfterRemove(N1, {parent})
             /\ edges' = EdgesAfterRemove(N1, E1, {parent})
        ELSE /\ nodes' = N1
             /\ edges' = E1
  /\ Events(Changed(nodes, edges, nodes', edges'), TRUE)
  /\ UNCHANGED <<mode, container, installed, viewVars, callVars, grabbed, interfaceCounters, drawVars, lockVars, fetches,
                 graceTimers>>

\* Add Link
MenuAddLink(n) ==
  /\ editMenus > 0
  /\ n \in DOMAIN nodes
  /\ IsPlainNodeTarget(nodes, n)
  /\ StartDraw(n)
  /\ UNCHANGED <<mode, container, installed, viewVars, callVars, grabbed, graphVars, interfaceCounters, lockVars, fetches,
                 graceTimers, saveVars>>

\* a Delete Group whose last case takes any element for a group
GroupIdOfEvery(N, n) ==
  IF N[n].role = "dummyChild" THEN N[n].parent ELSE n

\* a Delete Group that hands the element under the menu to the removal
GroupIdOfTarget(N, n) == n

\* the id Delete Group hands to the group manager ("" for none)
GroupIdOf(N, n) ==
  IF N[n].role = "dummyChild" THEN N[n].parent
  ELSE IF N[n].role = "group" \/ IsParent(N, n) THEN n
  ELSE ""

\* groupManager.directGroupRemoval(groupId): the children lose their parent,
\* a dummyChild among them is removed, the group is removed
NodesAfterGroupRemoval(N, groupId) ==
  LET gone == {groupId} \cup {c \in Children(N, groupId) : N[c].role = "dummyChild"}
  IN [id \in DOMAIN N \ gone |->
        IF N[id].parent = groupId THEN [N[id] EXCEPT !.parent = ""] ELSE N[id]]

EdgesAfterGroupRemoval(N, E, groupId) ==
  LET gone == {groupId} \cup {c \in Children(N, groupId) : N[c].role = "dummyChild"}
  IN {e \in E : e.source \notin gone /\ e.target \notin gone}

\* Delete Group
MenuDeleteGroup(n) ==
  /\ editMenus > 0
  /\ n \in DOMAIN nodes
  /\ IsGroupTarget(nodes, n)
  /\ IF GroupIdOf(nodes, n) \in DOMAIN nodes
     THEN /\ nodes' = NodesAfterGroupRemoval(nodes, GroupIdOf(nodes, n))
          /\ edges' = EdgesAfterGroupRemoval(nodes, edges, GroupIdOf(nodes, n))
          /\ Events(Changed(nodes, edges, nodes', edges'), TRUE)
     ELSE UNCHANGED <<graphVars, saveVars>>
  /\ UNCHANGED <<mode, container, installed, viewVars, callVars, grabbed, interfaceCounters, drawVars, lockVars, fetches,
                 graceTimers>>

\* Delete Link
MenuDeleteLink(e) ==
  /\ editMenus > 0
  /\ e \in edges
  /\ edges' = edges \ {e}
  /\ Events(1, TRUE)
  /\ UNCHANGED <<mode, container, installed, viewVars, callVars, grabbed, nodes, interfaceCounters, drawVars, lockVars, fetches,
                 graceTimers>>

\* Remove Text: freeTextManager.removeFreeTextAnnotation(id)
MenuRemoveText(n) ==
  /\ textMenus > 0
  /\ n \in DOMAIN nodes
  /\ IsFreeTextTarget(nodes, n)
  /\ nodes' = NodesAfterRemove(nodes, {n})
  /\ edges' = EdgesAfterRemove(nodes, edges, {n})
  /\ Events(Changed(nodes, edges, nodes', edges'), TRUE)
  /\ UNCHANGED <<mode, container, installed, viewVars, callVars, grabbed, interfaceCounters, drawVars, lockVars, fetches,
                 graceTimers>>

(***************************************************************************)
(* 'updateTopology' message.                                               *)
(***************************************************************************)
NoEdge == Edge("", "", "", << >>, << >>, "")

PatchNode(id, node) == [kind |-> "node", id |-> id, node |-> node, edge |-> NoEdge]

PatchEdge(edge) ==
  [kind |-> "edge", id |-> edge.id, node |-> Node("", "", "", ""), edge |-> edge]

\* an element without data.id
PatchNoId == PatchNode("", Node("pe", "", "", ""))

\* elements the host may send: new ones (the edge p1 ends on node x, which
\* may be missing) ...
PatchInserts ==
  { PatchNode("x", Node("pe", "", "", "")),
    PatchEdge(Edge("p1", "a", "x", Eth(5), Eth(1), "")) }

\* ... new data for the edge e1 ...
PatchLink == PatchEdge(Edge("e1", "a", "b", Eth(2), Eth(2), ""))

\* ... an edge under the id a link drawn from a to b gets ...
PatchDrawn == PatchEdge(Edge("a-b", "a", "b", Eth(7), Eth(7), ""))

\* ... editor provenance for the group g ...
PatchGroup == PatchNode("g", Node("group", "", "true", ""))

\* ... a node x placed inside the plain node b ...
PatchChild == PatchNode("x", Node("pe", "b", "", ""))

\* ... new data for the node a, and an element without id
PatchPool ==
  PatchInserts \cup
    {PatchLink, PatchNode("a", Node("pe", "", "", "nokia_srlinux")), PatchNoId}

MaxPatch == 2   \* elements of one payload at most

Payloads == UNION {[1..k -> PatchPool] : k \in 1..MaxPatch}

\* an iteration that adds the element without id, under the empty id
ApplyElementKeepsNoId(N, E, el) ==
  IF el.id \in DOMAIN N THEN [nodes |-> N, edges |-> E]
  ELSE [nodes |-> [id \in DOMAIN N \cup {el.id} |->
                     IF id = el.id THEN el.node ELSE N[id]],
        edges |-> E]

\* one iteration of elements.forEach: [nodes, edges] afterwards.
\* existing.data(el.data) merges the data; the library keeps id, source,
\* target and parent of an existing element.  cy.add(el) refuses an edge
\* with a missing endpoint.
ApplyElement(N, E, el) ==
  IF el.id = "" THEN [nodes |-> N, edges |-> E]
  ELSE IF el.id \in DOMAIN N
  THEN [nodes |-> IF el.kind = "node"
                  THEN [N EXCEPT ![el.id].role = el.node.role,
                                 ![el.id].editor = el.node.editor,
                                 ![el.id].kind = el.node.kind]
                  ELSE [N EXCEPT ![el.id].editor = el.edge.editor],
        edges |-> E]
  ELSE IF el.id \in EdgeIds(E)
  THEN [nodes |-> N,
        edges |-> {IF e.id # el.id THEN e
                   ELSE IF el.kind = "edge"
                   THEN [e EXCEPT !.sourceEndpoint = el.edge.sourceEndpoint,
                                  !.targetEndpoint = el.edge.targetEndpoint,
                                  !.editor = el.edge.editor]
                   ELSE [e EXCEPT !.editor = el.node.editor] : e \in E}]
  ELSE IF el.kind = "node"
  THEN [nodes |-> [id \in DOMAIN N \cup {el.id} |->
                     IF id = el.id
                     THEN [el.node EXCEPT !.parent =
                             IF el.node.parent \in DOMAIN N THEN el.node.parent ELSE ""]
                     ELSE N[id]],
        edges |-> E]
  ELSE [nodes |-> N,
        edges |-> IF CanAddEdge(N, E, el.edge) THEN E \cup {el.edge} ELSE E]

RECURSIVE ApplyPayload(_, _, _)
ApplyPayload(N, E, elements) ==
  IF elements = << >> THEN [nodes |-> N, edges |-> E]
  ELSE LET r == ApplyElement(N, E, Head(elements))
       IN ApplyPayload(r.nodes, r.edges, Tail(elements))

\* the elements of a payload that emit a 'data' or an 'add' event
Applied(elements) == Cardinality({i \in DOMAIN elements : elements[i].id # ""})

\* a handler that applies the payload behind the listeners of the graph
UpdateTopologySilent(elements) ==
  /\ nodes' = ApplyPayload(nodes, edges, elements).nodes
  /\ edges' = ApplyPayload(nodes, edges, elements).edges
  /\ UNCHANGED <<mode, container, installed, viewVars, callVars, grabbed, interfaceCounters, drawVars, lockVars, fetches,
                 graceTimers, saveVars>>

UpdateTopology(elements) ==
  /\ nodes' = ApplyPayload(nodes, edges, elements).nodes
  /\ edges' = ApplyPayload(nodes, edges, elements).edges
  /\ Events(Applied(elements), Changed(nodes, edges, nodes', edges') > 0)
  /\ UNCHANGED <<mode, container, installed, viewVars, callVars, grabbed, interfaceCounters, drawVars, lockVars, fetches,
                 graceTimers>>

\* 'updateTopology' whose msg.data is not an array: Array.isArray fails and
\* the handler does nothing
UpdateTopologyNotArray ==
  UNCHANGED vars

(***************************************************************************)
(* Deployment lock.                                                        *)
(***************************************************************************)
Ungrabify(N) == [id \in DOMAIN N |-> [N[id] EXCEPT !.grabbable = FALSE]]

Grabify(N) == [id \in DOMAIN N |-> [N[id] EXCEPT !.grabbable = TRUE]]

\* applyEditingRestrictions, past its guard.  disableEditingContextMenus
\* finds no menu instance to destroy (the instances are not kept where it
\* looks) and calls removeData on every element, which emits 'data'.
ApplyEditingRestrictions ==
  /\ nodes' = Ungrabify(nodes)
  /\ ehEnabled' = FALSE
  /\ cursor' = "not-allowed"
  /\ lockListeners' = lockListeners + 1
  /\ EventsWhen(Cardinality(ElementIds(nodes, edges)), FALSE, FALSE)
  /\ UNCHANGED <<edges, textMenus, editMenus>>

\* a removal that leaves the nodes as the lock made them
RemoveEditingRestrictionsKeepsNodes ==
  /\ ehEnabled' = (mode = "edit")
  /\ cursor' = ""
  /\ textMenus' = textMenus + 1
  /\ editMenus' = editMenus + 1
  /\ UNCHANGED <<nodes, edges, lockListeners, saveVars>>

\* removeEditingRestrictions; it ends with initializeContextMenu('edit')
RemoveEditingRestrictions ==
  /\ nodes' = Grabify(nodes)
  /\ ehEnabled' = (mode = "edit")
  /\ cursor' = ""
  /\ textMenus' = textMenus + 1
  /\ editMenus' = editMenus + 1
  /\ UNCHANGED <<edges, lockListeners, saveVars>>

\* a listener that does not compare the new flag with the old one
DeploymentStateReapplied(value) ==
  /\ CheckDeploymentState(value) => lockListeners < MaxListeners
  /\ isLabDeployed' = value
  /\ isEditingLocked' = CheckDeploymentState(value)
  /\ lastDelivery' = IF isEditingLocked' = isEditingLocked THEN "same" ELSE "changed"
  /\ IF isEditingLocked' THEN ApplyEditingRestrictions
     ELSE RemoveEditingRestrictions
  /\ UNCHANGED <<mode, container, installed, viewVars, callVars, grabbed, interfaceCounters, drawVars, fetches, graceTimers>>

\* the 'message' listener of setupDeploymentStateListener
DeploymentStateChanged(value) ==
  /\ CheckDeploymentState(value) /\ ~isEditingLocked => lockListeners < MaxListeners
  /\ isLabDeployed' = value
  /\ isEditingLocked' = CheckDeploymentState(value)
  /\ lastDelivery' = IF isEditingLocked' = isEditingLocked THEN "same" ELSE "changed"
  /\ IF isEditingLocked' /\ ~isEditingLocked THEN ApplyEditingRestrictions
     ELSE IF ~isEditingLocked' /\ isEditingLocked THEN RemoveEditingRestrictions
     ELSE UNCHANGED <<graphVars, ehEnabled, cursor, lockListeners, textMenus,
                      editMenus, saveVars>>
  /\ UNCHANGED <<mode, container, installed, viewVars, callVars, grabbed, interfaceCounters, drawVars, fetches, graceTimers>>

(***************************************************************************)
(* Autosave and time.                                                      *)
(***************************************************************************)
\* an autosave callback that looks at the edge draw only
TimerFireIgnoresLock ==
  /\ timeout = 0
  /\ timeout' = NoTimer
  /\ burst' = 0
  /\ burstCalm' = TRUE
  /\ IF isEdgeHandlerActive
     THEN UNCHANGED <<inFlight, saveLog, lastAuto, unsaved, afterReject>>
     ELSE inFlight < MaxInFlight /\ SaveIssued("auto", TRUE)
  /\ UNCHANGED <<mode, container, installed, viewVars, environment, grabbed, graphVars, interfaceCounters, drawVars,
                 lockVars, fetches, graceTimers, sinceEvent>>

\* an autosave that calls the save manager the way the toolbar does
TimerFireNotifies ==
  /\ timeout = 0
  /\ timeout' = NoTimer
  /\ burst' = 0
  /\ burstCalm' = TRUE
  /\ IF isEdgeHandlerActive \/ isEditingLocked
     THEN UNCHANGED <<inFlight, saveLog, lastAuto, unsaved, afterReject>>
     ELSE inFlight < MaxInFlight /\ SaveIssued("auto", FALSE)
  /\ UNCHANGED <<mode, container, installed, viewVars, environment, grabbed, graphVars, interfaceCounters, drawVars,
                 lockVars, fetches, graceTimers, sinceEvent>>

\* the debounce timer fires: the async function given to debounce
TimerFire ==
  /\ timeout = 0
  /\ timeout' = NoTimer
  /\ burst' = 0
  /\ burstCalm' = TRUE
  /\ IF isEdgeHandlerActive \/ isEditingLocked
     THEN UNCHANGED <<inFlight, saveLog, lastAuto, unsaved, afterReject>>
     ELSE inFlight < MaxInFlight /\ SaveIssued("auto", TRUE)
  /\ UNCHANGED <<mode, container, installed, viewVars, environment, grabbed, graphVars, interfaceCounters, drawVars, lockVars,
                 fetches, graceTimers, sinceEvent>>

\* window.viewportButtonsSaveTopo
ExplicitSave ==
  /\ inFlight < MaxInFlight
  /\ SaveIssued("explicit", FALSE)
  /\ UNCHANGED <<mode, container, installed, viewVars, environment, grabbed, graphVars, interfaceCounters, drawVars, lockVars,
                 fetches, graceTimers, timeout, burst, burstCalm, sinceEvent>>

\* the host answers a save request
SaveSettled ==
  /\ inFlight > 0
  /\ inFlight' = inFlight - 1
  /\ UNCHANGED <<mode, container, installed, viewVars, callVars, grabbed, graphVars, interfaceCounters, drawVars, lockVars,
                 fetches, graceTimers, timeout, saveLog, lastAuto, burst,
                 burstCalm, sinceEvent, unsaved>>

\* a rejected save that is requested again
SaveRejectedRetries ==
  /\ inFlight > 0
  /\ saveLog' = LET all == Append(saveLog, saveLog[Len(saveLog)])
                IN IF Len(all) > MaxSaves THEN Tail(all) ELSE all
  /\ afterReject' = 0
  /\ UNCHANGED <<mode, container, installed, viewVars, environment, grabbed, graphVars, interfaceCounters,
                 drawVars, lockVars, fetches, graceTimers, timeout, inFlight, lastAuto,
                 burst, burstCalm, sinceEvent, unsaved>>

\* the promise of a save request rejects: the autosave callback awaits it
\* and nothing handles the rejection
SaveRejected ==
  /\ inFlight > 0
  /\ inFlight' = inFlight - 1
  /\ afterReject' = 0
  /\ UNCHANGED <<mode, container, installed, viewVars, environment, grabbed, graphVars, interfaceCounters,
                 drawVars, lockVars, fetches, graceTimers, timeout, saveLog, lastAuto,
                 burst, burstCalm, sinceEvent, unsaved>>

\* the fetch of the lab name settles: the subtitle is set, or the error is
\* caught and logged
EnvironmentSettled(ok) ==
  /\ environment = "pending"
  /\ environment' = IF ok THEN "loaded" ELSE "failed"
  /\ UNCHANGED <<mode, container, installed, viewVars, afterReject, grabbed, graphVars, interfaceCounters,
                 drawVars, lockVars, fetches, graceTimers, saveVars>>

\* 100 ms pass; a timer that is due fires first
Tick ==
  /\ timeout # 0
  /\ 0 \notin graceTimers
  /\ timeout # NoTimer \/ graceTimers # {} \/ sinceEvent < SinceCap
  /\ timeout' = IF timeout > 0 THEN timeout - 1 ELSE timeout
  /\ graceTimers' = {t - 1 : t \in graceTimers}
  /\ sinceEvent' = Min(sinceEvent + 1, SinceCap)
  /\ UNCHANGED <<mode, container, installed, viewVars, callVars, grabbed, graphVars, interfaceCounters, drawVars, lockVars,
                 fetches, inFlight, saveLog, lastAuto, burst, burstCalm,
                 unsaved>>

(***************************************************************************)
(* Specifications.                                                         *)
(***************************************************************************)
Load == \E doc \in Docs : LoadData(doc)

CanvasClicks == \E shiftKey \in BOOLEAN : CanvasClick(shiftKey)

NodeClicks ==
  \E n \in DOMAIN nodes, ctrlKey, shiftKey, altKey \in BOOLEAN :
    NodeClick(n, ctrlKey, shiftKey, altKey)

\* clicks on a node with Alt held, with or without Ctrl
AltClicks ==
  \E n \in DOMAIN nodes, ctrlKey \in BOOLEAN : NodeClick(n, ctrlKey, FALSE, TRUE)

\* clicks on a node with Ctrl held
CtrlClicks == \E n \in DOMAIN nodes : NodeClick(n, TRUE, FALSE, FALSE)

\* clicks on a node with Shift held: the start of a link
ShiftClicks ==
  \E n \in DOMAIN nodes : NodeClick(n, FALSE, TRUE, FALSE)

EdgeClicks == \E e \in edges, altKey \in BOOLEAN : EdgeClick(e, altKey)

Click == CanvasClicks \/ NodeClicks \/ EdgeClicks

ViewNodeClicks ==
  \E n \in DOMAIN nodes, modifier \in BOOLEAN : ViewNodeClick(n, modifier)

ViewEdgeClicks == \E e \in edges, altKey \in BOOLEAN : ViewEdgeClick(e, altKey)

ViewClick == ViewNodeClicks \/ ViewEdgeClicks \/ ViewCanvasClick

Grabs == \E n \in DOMAIN nodes : Grab(n)

Positions == \E n \in DOMAIN nodes : Position(n)

Frees == \E dragged \in BOOLEAN : Free(dragged)

DeleteNodes == \E n \in DOMAIN nodes : MenuDeleteNode(n)

AddLinks == \E n \in DOMAIN nodes : MenuAddLink(n)

DeleteGroups == \E n \in DOMAIN nodes : MenuDeleteGroup(n)

DeleteLinks == \E e \in edges : MenuDeleteLink(e)

RemoveTexts == \E n \in DOMAIN nodes : MenuRemoveText(n)

Menu == DeleteNodes \/ AddLinks \/ DeleteGroups \/ DeleteLinks \/ RemoveTexts

Starts == \E n \in DOMAIN nodes : EhStart(n)

Completes == \E n \in DOMAIN nodes : EhComplete(n)

Draw == Starts \/ Completes \/ EhCancel \/ EhStop

Patch == \E elements \in Payloads : UpdateTopology(elements)

Insert == \E el \in PatchInserts : UpdateTopology(<<el>>)

MergeLink == UpdateTopology(<<PatchLink>>)

MergeDrawn == UpdateTopology(<<PatchDrawn>>)

MergeGroup == UpdateTopology(<<PatchGroup>>)

MergeChild == UpdateTopology(<<PatchChild>>)

\* the payloads with an element that has no id
GappedPayloads == {p \in Payloads : \E i \in DOMAIN p : p[i].id = ""}

Gapped == \E elements \in GappedPayloads : UpdateTopology(elements)

Environment == \E ok \in BOOLEAN : EnvironmentSettled(ok)

Deploy == \E value \in DeployValues : DeploymentStateChanged(value)

\* every handler and step
Next ==
  \/ Load
  \/ YamlSaved
  \/ Click
  \/ ViewClick
  \/ Menu
  \/ Draw
  \/ GraceFire
  \/ Patch
  \/ Deploy
  \/ TimerFire
  \/ ExplicitSave
  \/ SaveSettled
  \/ SaveRejected
  \/ Environment
  \/ Tick

Spec == Init /\ [][Next]_vars

\* an edit-mode controller of a lab that is not deployed
InitEdit == Init /\ mode = "edit" /\ isLabDeployed = "false"

\* Endpoint numbering: draws, deletions and reloads of a document
NextAlloc ==
  \/ LoadData(DocPlain)
  \/ YamlSaved
  \/ Starts
  \/ Completes
  \/ EhStop
  \/ EdgeClicks
  \/ DeleteNodes

SpecAlloc == InitEdit /\ [][NextAlloc]_vars

(***************************************************************************)
(* Endpoint numbering.                                                     *)
(***************************************************************************)
\* number k is in use on node n: an edge leaving n carries the k-th name of
\* n's pattern as its sourceEndpoint, or an edge entering n carries it as
\* its targetEndpoint
InUse(n, k) ==
  LET name == Instantiate(PatternOfKind(KindOf(nodes, n)), k)
  IN \E e \in edges : \/ e.source = n /\ e.sourceEndpoint = name
                      \/ e.target = n /\ e.targetEndpoint = name

\* the names node n carries, one per incidence
NamesOn(n) ==
  [i \in {<<e.id, "source">> : e \in {x \in edges : x.source = n}}
       \cup {<<e.id, "target">> : e \in {x \in edges : x.target = n}} |->
     LET e == CHOOSE x \in edges : x.id = i[1]
     IN IF i[2] = "source" THEN e.sourceEndpoint ELSE e.targetEndpoint]

\* C1: getNextEndpoint(node) is the node's pattern instantiated with the
\* smallest integer >= 1 not in use on the node, whatever the counters
\* hold: numbers 1, 3 and 4 in use give 2, no incident edge gives 1.
AllocatorReturnsSmallestFree ==
  \A n \in DOMAIN nodes :
    /\ \E k \in 1..(2 * Cardinality(edges) + 1) :
         /\ GetNextEndpoint(nodes, edges, n)
              = Instantiate(PatternOfKind(KindOf(nodes, n)), k)
         /\ ~InUse(n, k)
         /\ \A j \in 1..(k - 1) : InUse(n, j)
    /\ (\A e \in edges : e.source # n /\ e.target # n)
         => GetNextEndpoint(nodes, edges, n)
              = Instantiate(PatternOfKind(KindOf(nodes, n)), 1)

\* node a carries 1, 3 and 4 and is offered 2, with counters already advanced
AllocatorFillsGap ==
  /\ "a" \in DOMAIN nodes
  /\ {k \in 1..5 : InUse("a", k)} = {1, 3, 4}
  /\ GetNextEndpoint(nodes, edges, "a") = Eth(2)
  /\ Counter(interfaceCounters, "a") > 0

\* C2: no two edges incident to one node carry the same interface name on
\* that node's side, after any draws, deletions and reloads of a document
\* that starts so.
NoDuplicateInterfaceNames ==
  \A n \in DOMAIN nodes :
    \A i, j \in DOMAIN NamesOn(n) : i # j => NamesOn(n)[i] # NamesOn(n)[j]

\* an edge drawn from a to b beside all the edges of the loaded document:
\* the counters offered eth1 on both sides, which the document uses
DrawnBesideLoadedEdges ==
  /\ DocPlain.edges \subseteq edges
  /\ \E e \in edges : /\ e.id = "a-b"
                       /\ e.editor = "true"
                       /\ e.sourceEndpoint = Eth(2)
                       /\ e.targetEndpoint = Eth(3)

NextGraph ==
  \/ LoadData(DocGroup)
  \/ AltClicks
  \/ DeleteNodes
  \/ DeleteGroups
  \/ Starts
  \/ Completes
  \/ EhStop
  \/ Insert

SpecGraph == InitEdit /\ [][NextGraph]_vars

\* The deployment lock against the interactions it is to gate
NextLock ==
  \/ LoadData(DocTiny)
  \/ NodeClicks
  \/ EdgeClicks
  \/ DeleteNodes
  \/ AddLinks
  \/ DeleteLinks
  \/ Draw
  \/ Deploy

SpecLock == Init /\ [][NextLock]_vars

\* The lock flag against every kind of handler
NextFlag ==
  \/ LoadData(DocTiny)
  \/ YamlSaved
  \/ ShiftClicks
  \/ EdgeClicks
  \/ EhCancel
  \/ EhStop
  \/ MergeLink
  \/ Deploy
  \/ TimerFire
  \/ Tick

SpecFlag == InitEdit /\ [][NextFlag]_vars

\* Autosave in time
NextSave ==
  \/ LoadData(DocTiny)
  \/ NodeClicks
  \/ EdgeClicks
  \/ EhCancel
  \/ EhStop
  \/ Deploy
  \/ TimerFire
  \/ ExplicitSave
  \/ SaveSettled
  \/ Tick

SpecSave == InitEdit /\ [][NextSave]_vars

(***************************************************************************)
(* The deployment lock.                                                    *)
(***************************************************************************)
\* a click, a context-menu command or a step of an edge draw
UserInteraction == Click \/ Menu \/ Draw

\* C4: while the controller is Locked no user interaction (a click with a
\* modifier on a node, an edge or the canvas, a context-menu command, an
\* edge draw) changes the nodes, the edges, their data or their parents.
LockedInteractionChangesNothing ==
  [][(isEditingLocked /\ UserInteraction) => UNCHANGED graphVars]_vars

\* C5: a deployment-state-changed message whose value equals the lock flag
\* is a no-op: the restricted state and the installed listeners and menus
\* stay as one delivery left them.
RedeliveryIsNoOp ==
  [][\A value \in DeployValues :
       (DeploymentStateChanged(value) /\ (value = "true") = isEditingLocked)
         => UNCHANGED <<isEditingLocked, nodes, edges, ehEnabled, cursor,
                        lockListeners, textMenus, editMenus>>]_vars

\* true was delivered to a Locked edit-mode controller holding elements,
\* and one set of interceptors is installed
TrueDeliveredTwice ==
  /\ mode = "edit"
  /\ isEditingLocked
  /\ lastDelivery = "same"
  /\ lockListeners = 1
  /\ DOMAIN nodes # {}

\* C6: after construction the lock flag changes only in the handler of a
\* deployment-state-changed message, after which it equals
\* (message.isLabDeployed === true); no step of another handler (click,
\* edge-draw event, autosave timer, patch, reload) changes it.
LockFlagFollowsMessages ==
  [][/\ isEditingLocked' # isEditingLocked
          => \E value \in DeployValues : DeploymentStateChanged(value)
     /\ \A value \in DeployValues :
          DeploymentStateChanged(value) => isEditingLocked' = (value = "true")]_vars

\* a message locked the controller after an autosave and a patch of the
\* link
LockedByMessage ==
  /\ isEditingLocked
  /\ isLabDeployed = "true"
  /\ lastDelivery = "changed"
  /\ saveLog # << >>
  /\ PatchLink.edge \in edges

(***************************************************************************)
(* Autosave.                                                               *)
(***************************************************************************)
\* C7: in edit mode, Unlocked and with no edge draw in progress, the
\* mutation events of a burst (each less than a quiet period after the
\* one before) produce exactly one save call, one quiet period after the
\* last of them: when the timer of such a burst fires, a save is issued.
BurstEndsInOneSave ==
  [][(/\ TimerFire
      /\ mode = "edit"
      /\ ~isEditingLocked
      /\ ehPhase = "idle"
      /\ burst >= 1
      /\ burstCalm
      /\ inFlight < MaxInFlight)
       => /\ sinceEvent = QuietPeriod
          /\ inFlight' = inFlight + 1]_vars

\* C8: at most one save request is in flight at any time.
OneSaveInFlight == inFlight <= 1

\* C9: no user edit is lost.  While the controller is Unlocked and no draw
\* is under way, a mutation that no save request carries yet has the
\* autosave timer pending, so that a save request carrying it follows.
UnsavedEditHasSavePending ==
  (/\ mode = "edit"
   /\ unsaved
   /\ ~isEditingLocked
   /\ ~isEdgeHandlerActive
   /\ ehPhase = "idle")
    => timeout # NoTimer

(***************************************************************************)
(* The element model.                                                      *)
(***************************************************************************)
\* C10: source and target of every edge are nodes of the model: a node
\* removed by Alt+click, Delete Node or a group removal takes its edges
\* with it, and a patch inserts no edge with a missing endpoint.
EdgesResolve ==
  \A e \in edges : e.source \in DOMAIN nodes /\ e.target \in DOMAIN nodes

\* node a, which the loaded link and the link p1 of the patch start from,
\* has been removed; node b and the patched-in node x are left
SourceOfLinksRemoved ==
  /\ "a" \notin DOMAIN nodes
  /\ {"b", "x"} \subseteq DOMAIN nodes
  /\ unsaved

(***************************************************************************)
(* Edge drawing.                                                           *)
(***************************************************************************)
\* Draws between the nodes of a document with a group and a free text,
\* whose children can be orphaned and deleted
NextConnect ==
  \/ LoadData(DocGroup)
  \/ AltClicks
  \/ Starts
  \/ Completes
  \/ EhCancel
  \/ EhStop

SpecConnect == InitEdit /\ [][NextConnect]_vars

\* C11: canConnect(source, target) is true exactly when neither node is a
\* free text, the two are different nodes, neither has children and the
\* target is not a dummyChild; so the edge a completed draw adds has no
\* free-text end, no end that has children, no dummyChild target and two
\* different ends.
DrawnEdgesAreEligible ==
  /\ [](\A s, t \in DOMAIN nodes :
          CanConnect(nodes, s, t)
            <=> ~( \/ "freeText" \in {nodes[s].role, nodes[t].role}
                   \/ s = t
                   \/ \E c \in DOMAIN nodes : nodes[c].parent \in {s, t}
                   \/ nodes[t].role = "dummyChild" ))
  /\ [][\A t \in DOMAIN nodes :
          EhComplete(t) =>
            \A e \in edges' \ edges :
              /\ nodes[e.source].role # "freeText"
              /\ nodes[e.target].role # "freeText"
              /\ Children(nodes, e.source) = {}
              /\ Children(nodes, e.target) = {}
              /\ nodes[e.target].role # "dummyChild"
              /\ e.source # e.target]_vars

\* a link drawn from b to a lies in the model beside the group, its
\* dummyChild and the free text, none of which b may be linked to
LinkDrawnPastRefusedTargets ==
  /\ \E e \in edges : e.id = "b-a" /\ e.editor = "true"
  /\ {"g", "d", "t", "b"} \subseteq DOMAIN nodes
  /\ \A t \in {"g", "d", "t", "b"} : ~CanConnect(nodes, "b", t)
  /\ ~CanConnect(nodes, "g", "b")
  /\ ~CanConnect(nodes, "t", "b")
  /\ CanConnect(nodes, "d", "b")

(***************************************************************************)
(* 'updateTopology'.                                                       *)
(***************************************************************************)
\* C12: an updateTopology element that carries an id is merged into the
\* element with that id when there is one, the number of elements staying
\* as it was, and otherwise adds exactly one element, which has that id;
\* the elements with other ids stay as they were.
PatchMergesOrInserts ==
  [][\A el \in PatchInserts :
       UpdateTopology(<<el>>) =>
         /\ el.id \in ElementIds(nodes, edges)
              => ElementIds(nodes', edges') = ElementIds(nodes, edges)
         /\ el.id \notin ElementIds(nodes, edges)
              => /\ ElementIds(nodes', edges')
                      = ElementIds(nodes, edges) \cup {el.id}
                 /\ Cardinality(DOMAIN nodes') + Cardinality(edges')
                      = Cardinality(DOMAIN nodes) + Cardinality(edges) + 1
         /\ \A id \in DOMAIN nodes \ {el.id} :
              id \in DOMAIN nodes' /\ nodes'[id] = nodes[id]
         /\ \A e \in edges : e.id # el.id => e \in edges']_vars

\* Payloads with elements that lack an id, and payloads that are no array
NextPatch ==
  \/ LoadData(DocTiny)
  \/ YamlSaved
  \/ AltClicks
  \/ EdgeClicks
  \/ Gapped
  \/ UpdateTopologyNotArray

SpecPatch == Init /\ [][NextPatch]_vars

HasId(el) == el.id # ""

\* C13: a patch element without data or without id is skipped and the
\* other elements of its payload are applied all the same: the payload has
\* the effect of the payload without that element; a payload that is not
\* an array leaves the model as it is.
NoIdElementsAreSkipped ==
  [][/\ \A elements \in Payloads :
          UpdateTopology(elements) =>
            /\ nodes' = ApplyPayload(nodes, edges, SelectSeq(elements, HasId)).nodes
            /\ edges' = ApplyPayload(nodes, edges, SelectSeq(elements, HasId)).edges
            /\ "" \notin ElementIds(nodes', edges')
     /\ UpdateTopologyNotArray => UNCHANGED graphVars]_vars

\* payloads with a gap have put in node x and then the link p1 to it, and
\* have given node a another kind
GappedPayloadsApplied ==
  /\ "x" \in DOMAIN nodes
  /\ "p1" \in EdgeIds(edges)
  /\ "a" \in DOMAIN nodes
  /\ nodes["a"].kind = "nokia_srlinux"

(***************************************************************************)
(* Node clicks.                                                            *)
(***************************************************************************)
\* Clicks with every combination of modifiers on the nodes of a document
\* with a group
NextClick ==
  \/ LoadData(DocGroup)
  \/ YamlSaved
  \/ NodeClicks
  \/ EhCancel
  \/ EhStop

SpecClick == InitEdit /\ [][NextClick]_vars

\* C14: an edit-mode click on a node does one thing, the first that
\* applies: with Ctrl on a node that has a parent it orphans the node
\* (nothing is removed, no draw starts); else with Shift on a node that is
\* no free text it starts a draw from the node and leaves the model alone;
\* else with Alt on a node of editor provenance it removes the node; else
\* it leaves the model alone.
ClickDoesFirstThatApplies ==
  [][\A n \in DOMAIN nodes, ctrlKey, shiftKey, altKey \in BOOLEAN :
       NodeClick(n, ctrlKey, shiftKey, altKey) =>
         IF ctrlKey /\ nodes[n].parent \in DOMAIN nodes
         THEN /\ DOMAIN nodes' = DOMAIN nodes
              /\ nodes'[n] = [nodes[n] EXCEPT !.parent = ""]
              /\ \A m \in DOMAIN nodes \ {n} : nodes'[m] = nodes[m]
              /\ UNCHANGED <<edges, drawVars>>
         ELSE IF shiftKey /\ nodes[n].role # "freeText"
         THEN /\ UNCHANGED graphVars
              /\ isEdgeHandlerActive'
              /\ ehPhase = "idle" => ehPhase' = "drawing" /\ ehSource' = n
         ELSE IF altKey /\ nodes[n].editor = "true"
         THEN /\ n \notin DOMAIN nodes'
              /\ \A e \in edges' : e.source # n /\ e.target # n
              /\ UNCHANGED drawVars
         ELSE UNCHANGED <<graphVars, drawVars>>]_vars

\* node a, a child of editor provenance, has been orphaned and is still in
\* the model with its link, and a draw from b, a node of editor
\* provenance, is in progress
OrphanedNotDeleted ==
  /\ {"a", "b", "g"} \subseteq DOMAIN nodes
  /\ nodes["a"].parent = ""
  /\ nodes["a"].editor = "true"
  /\ \E e \in edges : e.id = "e1"
  /\ ehPhase = "drawing"
  /\ ehSource = "b"

(***************************************************************************)
(* Context menus and the lock.                                             *)
(***************************************************************************)
\* C15: in view mode the menus that can change the model (node, group and
\* edge menus) are never installed, whatever deployment-state-changed
\* messages arrive.
NoEditMenusInViewMode == mode = "view" => editMenus = 0

(***************************************************************************)
(* Autosave against drags and draws.                                       *)
(***************************************************************************)
\* Patches from the host, drags and draws, in time
NextDrag ==
  \/ LoadData(DocTiny)
  \/ MergeLink
  \/ Grabs
  \/ Positions
  \/ Frees
  \/ Starts
  \/ EhCancel
  \/ EhStop
  \/ TimerFire
  \/ Tick

SpecDrag == InitEdit /\ [][NextDrag]_vars

\* C16: the autosave timer issues no save request while a node is held
\* or an edge draw is in progress, whenever it was set; a position change
\* of the held node sets no timer, and letting a dragged node go sets it.
NoSaveDuringGesture ==
  [][/\ (TimerFire /\ (grabbed # NoNode \/ ehPhase = "drawing"))
          => UNCHANGED <<inFlight, saveLog>>
     /\ \A n \in DOMAIN nodes :
          (Position(n) /\ grabbed = n) => UNCHANGED <<timeout, burst>>
     /\ Free(TRUE) => timeout' = QuietPeriod]_vars

(***************************************************************************)
(* Elements that arrive under the lock.                                    *)
(***************************************************************************)
\* Loads, reloads and inserting patches against the lock, with the user
\* trying to grab nodes
NextEnter ==
  \/ Insert
  \/ LoadData(DocTiny)
  \/ YamlSaved
  \/ Deploy
  \/ Grabs
  \/ Frees

SpecEnter == Init /\ [][NextEnter]_vars

\* C17: the message that takes an edit-mode controller from Locked to
\* Unlocked gives back what the lock took: every node can be dragged, edge
\* drawing is enabled, the pointer is the default one and the node, group
\* and edge menus are installed; the elements stay as they are otherwise.
UnlockRestoresCapabilities ==
  [][\A value \in DeployValues :
       (/\ DeploymentStateChanged(value)
        /\ mode = "edit"
        /\ isEditingLocked
        /\ ~isEditingLocked')
         => /\ DOMAIN nodes' = DOMAIN nodes
            /\ \A n \in DOMAIN nodes :
                 nodes'[n] = [nodes[n] EXCEPT !.grabbable = TRUE]
            /\ edges' = edges
            /\ ehEnabled'
            /\ cursor' = ""
            /\ editMenus' >= 1]_vars

\* a controller constructed Unlocked in edit mode was locked and unlocked
\* by messages and holds its elements, all of them draggable again
LockedAndUnlockedAgain ==
  /\ mode = "edit"
  /\ ~isEditingLocked
  /\ lastDelivery = "changed"
  /\ lockListeners = 1
  /\ editMenus = 2
  /\ DOMAIN nodes = {"a", "b"}
  /\ \A n \in DOMAIN nodes : nodes[n].grabbable
  /\ ehEnabled
  /\ cursor = ""

\* C18: while an edit-mode controller is Locked no node of the model can
\* be dragged and edge drawing is disabled, also for nodes that came into
\* the model after the lock was applied and for a controller constructed
\* while the lab is deployed.
LockedNodesCannotBeDragged ==
  (mode = "edit" /\ isEditingLocked)
    => /\ \A n \in DOMAIN nodes : ~nodes[n].grabbable
       /\ ~ehEnabled

(***************************************************************************)
(* Cancelled draws.                                                        *)
(***************************************************************************)
\* C19: 'ehcancel' ends a draw with the nodes, the edges, their data and
\* their parents as they were, and with isEdgeHandlerActive false.
CancelLeavesModelAlone ==
  [][EhCancel => /\ UNCHANGED <<nodes, edges>>
                 /\ ~isEdgeHandlerActive']_vars

\* a draw on the loaded document has just been cancelled: the document is
\* intact and the flag is down before 'ehstop' arrives
DrawJustCancelled ==
  /\ ehPhase = "stopping"
  /\ ehSource \in DOMAIN nodes
  /\ ~isEdgeHandlerActive
  /\ nodes = DocTiny.nodes
  /\ edges = DocTiny.edges

(***************************************************************************)
(* The suppress-notification flag.                                         *)
(***************************************************************************)
\* Autosaves and saves the user asks for
NextNotify ==
  \/ LoadData(DocTiny)
  \/ EdgeClicks
  \/ Deploy
  \/ TimerFire
  \/ ExplicitSave
  \/ SaveSettled
  \/ Tick

SpecNotify == InitEdit /\ [][NextNotify]_vars

\* C20: every save request the autosave issues carries
\* suppressNotification = true, and no save request of
\* window.viewportButtonsSaveTopo carries it.
AutosaveSuppressesNotification ==
  \A i \in DOMAIN saveLog :
    /\ saveLog[i].kind = "auto" => saveLog[i].suppress
    /\ saveLog[i].kind = "explicit" => ~saveLog[i].suppress

\* an autosave and a save the user asked for have both been issued
BothKindsOfSaveIssued ==
  /\ \E i \in DOMAIN saveLog : saveLog[i].kind = "auto"
  /\ \E i \in DOMAIN saveLog : saveLog[i].kind = "explicit"

(***************************************************************************)
(* Construction that fails.  The constructor looks the container element   *)
(* up first and throws when there is none: the field initialisers have     *)
(* run, nothing else has.                                                  *)
(***************************************************************************)
\* a constructor that looks for the container after it has set everything up
InitNoContainerLate ==
  /\ container = FALSE
  /\ installed = FALSE
  /\ mode \in Modes
  /\ isLabDeployed \in DeployValues
  /\ isEditingLocked = CheckDeploymentState(isLabDeployed)
  /\ nodes = NoNodes
  /\ edges = {}
  /\ interfaceCounters = [id \in {} |-> 0]
  /\ isEdgeHandlerActive = FALSE
  /\ ehPhase = "idle"
  /\ ehSource = NoNode
  /\ grabbed = NoNode
  /\ selectedEdge = ""
  /\ inspector = ""
  /\ environment = "pending"
  /\ afterReject = NoReject
  /\ lineColor = {}
  /\ ehEnabled = (mode = "edit" /\ ~isEditingLocked)
  /\ lockListeners = IF mode = "edit" /\ isEditingLocked THEN 1 ELSE 0
  /\ cursor = IF mode = "edit" /\ isEditingLocked THEN "not-allowed" ELSE ""
  /\ textMenus = IF isEditingLocked THEN 0 ELSE 1
  /\ editMenus = IF ~isEditingLocked /\ mode = "edit" THEN 1 ELSE 0
  /\ fetches = 1
  /\ timeout = NoTimer
  /\ graceTimers = {}
  /\ inFlight = 0
  /\ saveLog = << >>
  /\ lastAuto = NoAuto
  /\ lastDelivery = "none"
  /\ burst = 0
  /\ burstCalm = TRUE
  /\ sinceEvent = SinceCap
  /\ unsaved = FALSE

\* the state a constructor call leaves when getElementById returns null:
\* the throw is the first thing the constructor does
InitNoContainer ==
  /\ container = FALSE
  /\ installed = FALSE
  /\ mode \in Modes
  /\ isLabDeployed \in DeployValues
  /\ isEditingLocked = FALSE
  /\ nodes = NoNodes
  /\ edges = {}
  /\ interfaceCounters = [id \in {} |-> 0]
  /\ isEdgeHandlerActive = FALSE
  /\ ehPhase = "idle"
  /\ ehSource = NoNode
  /\ grabbed = NoNode
  /\ selectedEdge = ""
  /\ inspector = ""
  /\ environment = "none"
  /\ afterReject = NoReject
  /\ lineColor = {}
  /\ ehEnabled = FALSE
  /\ lockListeners = 0
  /\ cursor = ""
  /\ textMenus = 0
  /\ editMenus = 0
  /\ fetches = 0
  /\ timeout = NoTimer
  /\ graceTimers = {}
  /\ inFlight = 0
  /\ saveLog = << >>
  /\ lastAuto = NoAuto
  /\ lastDelivery = "none"
  /\ burst = 0
  /\ burstCalm = TRUE
  /\ sinceEvent = SinceCap
  /\ unsaved = FALSE

\* the handlers, the timers and the global entry point exist only once the
\* constructor has got past the container check
NextBoot ==
  \/ container /\ LoadData(DocTiny)
  \/ container /\ YamlSaved
  \/ container /\ EdgeClicks
  \/ container /\ Deploy
  \/ container /\ TimerFire
  \/ container /\ ExplicitSave
  \/ container /\ SaveSettled
  \/ container /\ Tick

SpecBoot == (Init \/ InitNoContainer) /\ [][NextBoot]_vars

\* C21: when the container element is absent the constructor fails before
\* it creates the graph, registers a listener or a menu, sends a request to
\* the host or exposes the save entry point: the lock flag keeps its field
\* initialiser, the graph is empty, nothing is installed, no request is
\* pending and none is ever sent.
FailedConstructionLeavesNothing ==
  ~container =>
    /\ ~isEditingLocked
    /\ nodes = NoNodes /\ edges = {}
    /\ ~ehEnabled
    /\ lockListeners = 0 /\ textMenus = 0 /\ editMenus = 0
    /\ cursor = ""
    /\ fetches = 0
    /\ timeout = NoTimer
    /\ inFlight = 0 /\ saveLog = << >>
    /\ lastDelivery = "none"

\* a construction that failed in an edit page whose lab is deployed
FailedWhileDeployed ==
  ~container /\ mode = "edit" /\ isLabDeployed = "true"

\* Groups deleted from the menu of the group and of its placeholder, among
\* clicks and menu commands that delete nodes and patches that add nodes
\* and links
NextGroup ==
  \/ LoadData(DocGroup)
  \/ YamlSaved
  \/ AltClicks
  \/ DeleteNodes
  \/ DeleteGroups
  \/ Insert

SpecGroup == InitEdit /\ [][NextGroup]_vars

\* C22: deleting a group is one cascading operation.  Whether the menu was
\* opened on the group or on its dummyChild placeholder, after Delete Group
\* the group is absent, every dummyChild among its children is absent, every
\* other child is present with no parent and otherwise as it was, and the
\* edges between nodes that survive are the ones there were.
GroupDeletionCascades ==
  [][\A n \in DOMAIN nodes :
       LET g == IF nodes[n].role = "dummyChild" THEN nodes[n].parent ELSE n
           dummies == {c \in Children(nodes, g) : nodes[c].role = "dummyChild"}
       IN (MenuDeleteGroup(n) /\ g \in DOMAIN nodes) =>
            /\ g \notin DOMAIN nodes'
            /\ dummies \cap DOMAIN nodes' = {}
            /\ \A c \in Children(nodes, g) \ dummies :
                 /\ c \in DOMAIN nodes'
                 /\ nodes'[c] = [nodes[c] EXCEPT !.parent = ""]
            /\ DOMAIN nodes' = DOMAIN nodes \ ({g} \cup dummies)
            /\ edges' \subseteq edges
            /\ \A e \in edges :
                 (e.source \in DOMAIN nodes' /\ e.target \in DOMAIN nodes')
                   => e \in edges']_vars

\* the group of the loaded document is gone with its placeholder; its child
\* is a top-level node that still has its link
GroupDeletedChildKept ==
  /\ "g" \notin DOMAIN nodes /\ "d" \notin DOMAIN nodes
  /\ "a" \in DOMAIN nodes /\ nodes["a"].parent = ""
  /\ \E e \in edges : e.id = "e1" /\ e.source = "a"

\* C23: a newly constructed controller is Locked exactly when
\* window.isLabDeployed is true at construction, Unlocked otherwise; an
\* Unlocked controller becomes Locked only in the handler of a
\* deployment-state-changed message that carries true.
LockFollowsDeploymentFromConstruction ==
  /\ [](lastDelivery = "none" => isEditingLocked = (isLabDeployed = "true"))
  /\ [][(~isEditingLocked /\ isEditingLocked')
          => DeploymentStateChanged("true")]_vars

\* a controller constructed for a deployed lab has loaded its document and
\* is Locked without having received any message
LockedSinceConstruction ==
  /\ isEditingLocked
  /\ lastDelivery = "none"
  /\ nodes # NoNodes

\* C23 as stated: until a message arrives the controller is Unlocked
ConstructedUnlocked == lastDelivery = "none" => ~isEditingLocked

\* Edge draws started every way the controller offers, one after another,
\* against the grace timers of the draws before them
NextGesture ==
  \/ LoadData(DocTiny)
  \/ ShiftClicks
  \/ AddLinks
  \/ Starts
  \/ Completes
  \/ EhCancel
  \/ EhStop
  \/ GraceFire
  \/ TimerFire
  \/ Tick

SpecGesture == InitEdit /\ [][NextGesture]_vars

\* C24: the edge-draw-active flag is true in every state in which a draw is
\* in progress, and false when no draw is in progress and no grace timer is
\* pending.
FlagTracksDraw ==
  /\ ehPhase = "drawing" => isEdgeHandlerActive
  /\ (ehPhase = "idle" /\ graceTimers = {}) => ~isEdgeHandlerActive

\* C25: while Unlocked no set of lock interceptors (the tap, cxttap and
\* grab listeners of applyEditingRestrictions) is installed on the graph,
\* and however many deployment-state-changed messages have arrived at most
\* one set is.
InterceptorsFollowLock ==
  /\ ~isEditingLocked => lockListeners = 0
  /\ lockListeners <= 1

\* C26: while the controller is Locked the autosave issues no save request.
\* A debounce timer that fires with the lock flag true returns without
\* calling save, whenever the mutation that scheduled it happened, and the
\* only save requests sent under the lock are those of the save entry point.
NoAutosaveWhileLocked ==
  [][isEditingLocked =>
       /\ TimerFire => UNCHANGED <<inFlight, saveLog, lastAuto>>
       /\ inFlight' > inFlight => ExplicitSave]_vars

\* the timer of a mutation has fired under the lock: the mutation is in the
\* model, no timer is pending and no save request was ever sent
SaveDroppedUnderLock ==
  /\ isEditingLocked
  /\ unsaved
  /\ timeout = NoTimer
  /\ burst = 0
  /\ saveLog = << >>

\* C27: the debounce closure holds one timer.  Every event that reaches
\* autoSave replaces the pending timer by one of a full quiet period, the
\* timer fires exactly one quiet period after the latest such event, and so
\* no autosave request is sent earlier than that.
TrailingEdgeDebounce ==
  /\ [](timeout = NoTimer \/ timeout = QuietPeriod - sinceEvent)
  /\ [][/\ burst' > burst => timeout' = QuietPeriod
        /\ TimerFire => sinceEvent = QuietPeriod
        /\ inFlight' > inFlight => sinceEvent >= QuietPeriod]_vars

\* an autosave went out for a load and a later patch of the link, one quiet
\* period after the last of the events
SavedAfterQuietPeriod ==
  /\ saveLog # << >>
  /\ lastAuto.burst >= 2
  /\ lastAuto.since = QuietPeriod
  /\ PatchLink.edge \in edges
  /\ ~unsaved

\* C28: in edit mode a patch or a reload that adds, removes or changes an
\* element sets the debounce timer of the autosave to a full quiet period,
\* as a click that deletes an element does: no step changes the nodes or
\* the edges and leaves the timer as it was.
ExternalChangesReachAutosave ==
  [][mode = "edit" =>
       /\ \A elements \in Payloads :
            (UpdateTopology(elements) /\ graphVars' # graphVars)
              => timeout' = QuietPeriod /\ sinceEvent' = 0 /\ unsaved'
       /\ \A doc \in Docs :
            (LoadData(doc) /\ graphVars' # graphVars)
              => timeout' = QuietPeriod /\ sinceEvent' = 0
       /\ graphVars' # graphVars => timeout' = QuietPeriod]_vars

\* edit mode: a patch has put new data on the loaded link and the timer of
\* the autosave is set for it
PatchAwaitsAutosave ==
  /\ mode = "edit"
  /\ PatchLink.edge \in edges
  /\ unsaved
  /\ timeout = QuietPeriod

\* Links drawn again and again between the same nodes, against patches
\* that carry the ids of the loaded and of the drawn link
NextIds ==
  \/ LoadData(DocTiny)
  \/ Starts
  \/ Completes
  \/ EhStop
  \/ EdgeClicks
  \/ MergeLink
  \/ MergeDrawn

SpecIds == InitEdit /\ [][NextIds]_vars

NextView ==
  \/ LoadData(DocTiny)
  \/ ViewNodeClicks
  \/ ViewEdgeClicks
  \/ ViewCanvasClick
  \/ MergeLink
  \/ Deploy
  \/ TimerFire
  \/ ExplicitSave
  \/ SaveSettled
  \/ Tick

SpecView == Init /\ [][NextView]_vars

\* C30: in view mode a click on a node, an edge or the canvas leaves the
\* nodes, the edges, their data and their parents as they are, and the
\* autosave never acts: no timer is ever set, no autosave request is in the
\* history, and a request is sent only by the save entry point.
ViewModeClicksChangeNothing ==
  /\ [](mode = "view" =>
          /\ timeout = NoTimer
          /\ lastAuto = NoAuto
          /\ \A i \in DOMAIN saveLog : saveLog[i].kind # "auto")
  /\ [][mode = "view" =>
          /\ (ViewClick \/ Click) => UNCHANGED graphVars
          /\ inFlight' > inFlight => ExplicitSave]_vars

\* view mode: the document is loaded, a patch has changed the link, the
\* link is under inspection
LinkInspectedInViewMode ==
  /\ mode = "view"
  /\ selectedEdge \in EdgeIds(edges)
  /\ PatchLink.edge \in edges
  /\ unsaved

(***************************************************************************)
(* Edit-mode clicks and menu commands, one by one.                         *)
(***************************************************************************)
\* C31: Ctrl+click on a child node clears the parent relation of that node
\* and nothing else: the same nodes are in the model, the clicked node keeps
\* every other datum, every other node (the former parent included) and
\* every edge is as it was.
OrphanClearsParentOnly ==
  [][\A n \in DOMAIN nodes, shiftKey, altKey \in BOOLEAN :
       (NodeClick(n, TRUE, shiftKey, altKey) /\ IsChild(nodes, n)) =>
         /\ nodes' = [nodes EXCEPT ![n].parent = ""]
         /\ nodes[n].parent \in DOMAIN nodes'
         /\ nodes'[nodes[n].parent] = nodes[nodes[n].parent]
         /\ edges' = edges
         /\ \A e \in edges : (e.source = n \/ e.target = n) => e \in edges']_vars

\* node a has left the group: the group, its placeholder and the link of a
\* are all still there, and no draw was started
OrphanedBesideGroup ==
  /\ "a" \in DOMAIN nodes /\ nodes["a"].parent = ""
  /\ "g" \in DOMAIN nodes /\ nodes["g"].role = "group"
  /\ "d" \in DOMAIN nodes /\ nodes["d"].parent = "g"
  /\ \E e \in edges : e.id = "e1" /\ e.source = "a"
  /\ ehPhase = "idle" /\ ~isEdgeHandlerActive

\* Alt+clicks on the nodes of a document with a group, whose provenance the
\* host may patch
NextProvenance ==
  \/ LoadData(DocGroup)
  \/ YamlSaved
  \/ AltClicks
  \/ MergeGroup
  \/ Insert

SpecProvenance == InitEdit /\ [][NextProvenance]_vars

\* C32: Alt+click leaves a node that has no editor provenance in place, and
\* when it deletes a node it removes that node and the edges incident to
\* it, and no other element.
AltClickDeletesNodeAndItsEdges ==
  [][\A n \in DOMAIN nodes, ctrlKey \in BOOLEAN :
       NodeClick(n, ctrlKey, FALSE, TRUE) =>
         IF nodes[n].editor # "true"
         THEN n \in DOMAIN nodes'
         ELSE n \notin DOMAIN nodes' =>
                /\ nodes' = Restrict(nodes, DOMAIN nodes \ {n})
                /\ edges' = {e \in edges : e.source # n /\ e.target # n}]_vars

\* Delete Node on the nodes of a document with a group, whose children the
\* user may have taken out of the group before
NextParent ==
  \/ LoadData(DocGroup)
  \/ YamlSaved
  \/ CtrlClicks
  \/ AltClicks
  \/ DeleteNodes
  \/ DeleteLinks
  \/ MergeLink
  \/ Insert

SpecParent == InitEdit /\ [][NextParent]_vars

\* C33: Delete Node removes the node; a parent the node had is removed with
\* it exactly when no other child is left in it, a dummyChild counting as a
\* child.
DeleteNodeTakesEmptiedParent ==
  [][\A n \in DOMAIN nodes :
       MenuDeleteNode(n) =>
         LET parent == nodes[n].parent
             rest == Children(nodes, parent) \ Closure(nodes, {n})
         IN /\ n \notin DOMAIN nodes'
            /\ parent \in DOMAIN nodes =>
                 (parent \in DOMAIN nodes' <=> rest # {})
            /\ \A m \in DOMAIN nodes \ (Closure(nodes, {n}) \cup {parent}) :
                 m \in DOMAIN nodes' /\ nodes'[m] = nodes[m]]_vars

\* the placeholder had left the group, so deleting node a emptied the
\* group and took it along
EmptiedGroupRemoved ==
  /\ "a" \notin DOMAIN nodes
  /\ "g" \notin DOMAIN nodes
  /\ "d" \in DOMAIN nodes /\ nodes["d"].parent = ""
  /\ "b" \in DOMAIN nodes

\* C34: Delete Group asks for one removal, of the owning group.  For a
\* dummyChild the id it hands over is that of the node's parent, for a node
\* of role group or a node that has children it is the node's own, for any
\* other node there is none; and a Delete Group step removes that one
\* group and no other node but placeholders.
DeleteGroupTargetsOwningGroup ==
  /\ [](\A n \in DOMAIN nodes :
          GroupIdOf(nodes, n) =
            CASE nodes[n].role = "dummyChild" -> nodes[n].parent
              [] nodes[n].role # "dummyChild"
                   /\ (nodes[n].role = "group" \/ Children(nodes, n) # {}) -> n
              [] OTHER -> "")
  /\ [][\A n \in DOMAIN nodes :
          MenuDeleteGroup(n) =>
            LET g == IF nodes[n].role = "dummyChild" THEN nodes[n].parent ELSE n
            IN {m \in DOMAIN nodes \ DOMAIN nodes' : nodes[m].role # "dummyChild"}
                 = {g} \cap DOMAIN nodes]_vars

\* the group is gone with its placeholder while node x, which a patch
\* added and which belongs to no group, is in the model beside node a
GroupGoneBesidePatchedNode ==
  /\ "g" \notin DOMAIN nodes /\ "d" \notin DOMAIN nodes
  /\ {"a", "x"} \subseteq DOMAIN nodes
  /\ nodes["a"].parent = ""

\* the context-menu commands on a document with a group and a free text,
\* into whose plain node b the host may place a node
NextMenu ==
  \/ LoadData(DocGroup)
  \/ YamlSaved
  \/ MergeChild
  \/ Insert
  \/ DeleteNodes
  \/ DeleteGroups
  \/ RemoveTexts

SpecMenu == InitEdit /\ [][NextMenu]_vars

\* C35: at most one of the installed context menus applies to a node: the
\* selectors of the free-text, the plain-node and the group menu are
\* disjoint, a node that has children is served by the group menu only.
\* (The edge menu selects edges, which are no nodes.)
AtMostOneMenuPerNode ==
  \A n \in DOMAIN nodes : Cardinality(MenusFor(n)) <= 1

\* view-mode clicks on a document with a group, a placeholder and a free
\* text, into whose plain node b the host may place a node
NextInspect ==
  \/ LoadData(DocGroup)
  \/ YamlSaved
  \/ ViewNodeClicks
  \/ ViewEdgeClicks
  \/ ViewCanvasClick
  \/ MergeChild

SpecInspect == Init /\ [][NextInspect]_vars

\* C36: a view-mode node click on a node that has children or has role
\* group opens the group inspector and nothing else; on any other node of
\* role textbox, dummyChild or freeText it opens nothing; on any other node
\* it opens the node inspector only when none of Alt, Ctrl and Shift is
\* held.
ViewNodeClickDispatch ==
  [][\A n \in DOMAIN nodes, modifier \in BOOLEAN :
       ViewNodeClick(n, modifier) =>
         IF Children(nodes, n) # {} \/ nodes[n].role = "group"
         THEN inspector' = "group"
         ELSE IF nodes[n].role \in {"textbox", "dummyChild", "freeText"}
         THEN inspector' = ""
         ELSE /\ inspector' \in {"node", ""}
              /\ inspector' = "node" => ~modifier]_vars

\* the node panel is open in view mode; the document holds a group, a
\* placeholder and a free text, and the plain node b has a child
NodePanelOpenBesideGroups ==
  /\ mode = "view"
  /\ inspector = "node"
  /\ {"g", "d", "t"} \subseteq DOMAIN nodes
  /\ Children(nodes, "b") # {}

\* view-mode clicks on documents with one and with three links, loaded and
\* made in the editor
NextColour ==
  \/ Load
  \/ YamlSaved
  \/ ViewNodeClicks
  \/ ViewEdgeClicks
  \/ ViewCanvasClick

SpecColour == Init /\ [][NextColour]_vars

\* C37: at most one edge carries an inspection line colour at any time.  An
\* edge click leaves the clicked edge as the only coloured one, in the
\* colour of its provenance (made in the editor, or loaded); a node click
\* and a canvas click leave no edge coloured and no edge selected.
OneInspectedEdge ==
  /\ [](Cardinality({c.id : c \in lineColor}) <= 1)
  /\ [][\A e \in edges, altKey \in BOOLEAN :
          ViewEdgeClick(e, altKey) =>
            lineColor' = {[id |-> e.id,
                           color |-> IF e.editor = "true" THEN "#32CD32"
                                     ELSE "#0043BF"]}]_vars
  /\ [][ViewNodeClicks \/ ViewCanvasClick =>
          lineColor' = {} /\ selectedEdge' = ""]_vars

\* of three loaded links the link e2 is the inspected one
SecondLinkInspected ==
  /\ mode = "view"
  /\ Cardinality(edges) = 3
  /\ lineColor = {[id |-> "e2", color |-> "#0043BF"]}
  /\ selectedEdge = "e2"

\* deletions and patches of links, whose save requests and whose fetch of
\* the lab name the host may reject
NextReject ==
  \/ LoadData(DocTiny)
  \/ EdgeClicks
  \/ MergeLink
  \/ Environment
  \/ TimerFire
  \/ SaveSettled
  \/ SaveRejected
  \/ Tick

SpecReject == InitEdit /\ [][NextReject]_vars

\* C38: a rejected fetch of the lab name and a rejected save leave the
\* controller as it was: nothing but the settled call changes, no timer is
\* armed and no request is sent again for it, and the fetch is never
\* started again.  After either rejection an event that changes the links
\* still arms the timer of a full quiet period, and the timer, when it
\* fires outside a draw and outside the lock, still sends a save request.
RejectionsLeaveControllerWorking ==
  /\ [][SaveRejected =>
          UNCHANGED <<container, mode, graphVars, drawVars, lockVars, lockListeners,
                      textMenus, editMenus, timeout, saveLog, burst, unsaved>>]_vars
  /\ [][environment # "pending" => environment' = environment]_vars
  /\ [][environment' = "failed" /\ environment = "pending" =>
          UNCHANGED <<container, mode, graphVars, drawVars, lockVars, lockListeners,
                      textMenus, editMenus, saveVars>>]_vars
  /\ [][(environment = "failed" \/ afterReject # NoReject) /\ edges' # edges =>
          timeout' = QuietPeriod]_vars
  /\ [][(environment = "failed" \/ afterReject # NoReject)
          /\ TimerFire /\ ~isEdgeHandlerActive /\ ~isEditingLocked =>
            /\ inFlight' = inFlight + 1
            /\ saveLog'[Len(saveLog')] = [kind |-> "auto", suppress |-> TRUE]]_vars

\* the fetch of the lab name failed, a save was rejected, and an autosave
\* requested after that is on its way
SavedAgainAfterRejections ==
  /\ environment = "failed"
  /\ afterReject = 1
  /\ inFlight > 0
  /\ saveLog # << >>
  /\ saveLog[Len(saveLog)].kind = "auto"

\* the state a constructor call leaves when the construction of a context
\* menu throws: the container is there, the lab is not deployed (the menus
\* are built only then), the topology and the lab name are asked for, the
\* click handlers and the edge drawing are set up; the free-text menu is
\* there when a later menu was the one that failed
InitMenuThrows ==
  /\ container = TRUE
  /\ installed = FALSE
  /\ mode \in Modes
  /\ isLabDeployed \in DeployValues
  /\ isEditingLocked = CheckDeploymentState(isLabDeployed)
  /\ ~isEditingLocked
  /\ nodes = NoNodes
  /\ edges = {}
  /\ interfaceCounters = [id \in {} |-> 0]
  /\ isEdgeHandlerActive = FALSE
  /\ ehPhase = "idle"
  /\ ehSource = NoNode
  /\ grabbed = NoNode
  /\ selectedEdge = ""
  /\ inspector = ""
  /\ environment = "pending"
  /\ afterReject = NoReject
  /\ lineColor = {}
  /\ ehEnabled = (mode = "edit")
  /\ lockListeners = 0
  /\ cursor = ""
  /\ textMenus \in {0, 1}
  /\ editMenus = 0
  /\ fetches = 1
  /\ timeout = NoTimer
  /\ graceTimers = {}
  /\ inFlight = 0
  /\ saveLog = << >>
  /\ lastAuto = NoAuto
  /\ lastDelivery = "none"
  /\ burst = 0
  /\ burstCalm = TRUE
  /\ sinceEvent = SinceCap
  /\ unsaved = FALSE

\* the autosave, the listener of the deployment state, the handler of
\* inbound messages and the global entry point exist only once the
\* constructor has run to its end
NextInstalled ==
  \/ installed /\ LoadData(DocTiny)
  \/ installed /\ YamlSaved
  \/ installed /\ EdgeClicks
  \/ installed /\ Deploy
  \/ installed /\ TimerFire
  \/ installed /\ ExplicitSave
  \/ installed /\ SaveSettled
  \/ installed /\ Tick

SpecInstalled == (Init \/ InitMenuThrows) /\ [][NextInstalled]_vars

\* C39: whenever the container element is there, the constructor installs
\* the managers, the autosave, the listener of the deployment state and the
\* handler of inbound messages, also when the construction of a context
\* menu or the tear-down of the menus raised an exception.
MenuFailureKeepsInitialization ==
  container => installed

====
